---- MODULE Spec2Model ----
(***************************************************************************)
(* A model of the alert-to-order webhook services of alpaca-webhook-bot.   *)
(*                                                                         *)
(*   SpecWebhook  the equities /webhook handler in its three variants      *)
(*                (app.py, app_live.py, breakout_bot.py), served by the    *)
(*                threads of Flask's development server, against a broker  *)
(*                that holds positions and executes orders.                *)
(*                                                                         *)
(* Money is in cents and quantities are whole shares/contracts.            *)
(***************************************************************************)
EXTENDS Integers, Sequences, FiniteSets, TLC

(***************************************************************************)
(* Bounds of the model.                                                    *)
(***************************************************************************)
MaxRequests == 2      \* webhook requests received in one run
MaxPos == 1           \* magnitude of a position the broker holds at start
MaxDay == 1           \* midnights that pass in one run

(***************************************************************************)
(* Small input sets.                                                       *)
(***************************************************************************)
Workers == {1, 2}                \* request threads (app.run is threaded)
Symbols == {"AAPL", "MSFT"}

Abs(x) == IF x < 0 THEN -x ELSE x
Min(a, b) == IF a <= b THEN a ELSE b

\* The alert's "price" field: absent, not a number, or a number of cents.
NoPrice == [s |-> "missing", v |-> 0]
BadPrice == [s |-> "bad", v |-> 0]
Num(v) == [s |-> "num", v |-> v]

\* Alerts the webhook is sent: every well-formed entry/exit alert for one
\* symbol (the other symbol is only held at the broker), and one alert for
\* each way of being malformed or unmapped.
Payloads ==
    [ticker : {"AAPL"}, action : {"buy", "sell"}, price : {Num(30000), Num(0), BadPrice}]
    \cup { [ticker |-> "", action |-> "buy", price |-> Num(30000)],
           [ticker |-> "AAPL", action |-> "", price |-> Num(30000)],
           [ticker |-> "AAPL", action |-> "buy", price |-> NoPrice],
           [ticker |-> "AAPL", action |-> "hold", price |-> Num(30000)],
           [ticker |-> "aapl", action |-> "Buy", price |-> Num(30000)] }

\* Account snapshots the broker may answer with (cents).  The amounts are
\* multiples of 2.50: a tenth of each is a double exactly.
Accounts ==
    { [regt_buying_power |-> 600000, equity |-> 600000, buying_power |-> 600000],
      [regt_buying_power |-> 300000, equity |-> 1000000, buying_power |-> 40000],
      [regt_buying_power |-> 200000, equity |-> 200000, buying_power |-> 200000] }

\* Process configurations: the module-level settings of each variant.
Configs ==
    [variant : {"app"}, STRATEGY_TYPE : {"long", "short"}, ENABLE_TRADING : {TRUE},
     ENFORCE_MARKET_HOURS : {FALSE}, AUTO_CLOSE_BEFORE_MINUTES : {5}]
    \cup
    [variant : {"app_live"}, STRATEGY_TYPE : {"long", "short"}, ENABLE_TRADING : {TRUE},
     ENFORCE_MARKET_HOURS : BOOLEAN, AUTO_CLOSE_BEFORE_MINUTES : {5}]
    \cup
    [variant : {"breakout_bot"}, STRATEGY_TYPE : {"long"}, ENABLE_TRADING : {TRUE},
     ENFORCE_MARKET_HOURS : BOOLEAN, AUTO_CLOSE_BEFORE_MINUTES : {5}]
    \cup
    [variant : {"app_live", "breakout_bot"}, STRATEGY_TYPE : {"long"}, ENABLE_TRADING : {TRUE},
     ENFORCE_MARKET_HOURS : {TRUE}, AUTO_CLOSE_BEFORE_MINUTES : {65}]
    \cup
    [variant : {"app_live", "breakout_bot"}, STRATEGY_TYPE : {"long"}, ENABLE_TRADING : {FALSE},
     ENFORCE_MARKET_HOURS : {TRUE}, AUTO_CLOSE_BEFORE_MINUTES : {5, 65}]

\* Minutes of the day (Eastern time) a clock read may return: either side of
\* 04:00, of 15:55 and of 16:00.
Minutes == {239, 240, 954, 955, 959, 960}

\* The run starts on a Friday; weekday 0 is Monday.
Weekday(day) == (4 + day) % 7

VARIABLES
    config,        \* the process configuration (module globals)
    today,         \* the current calendar day (a day number)
    position,      \* broker: signed position quantity per symbol
    orders,        \* broker: the orders and liquidations it has accepted and
                   \* not yet executed
    trades_log,    \* contents of daily_trades.json: {<<day, symbol>>}
    thread,        \* per request thread: control point and locals of webhook()
    nreq,          \* requests received so far
    entered        \* history: the entry orders the broker has accepted, each
                   \* with the day it was accepted on

webhookVars == <<config, today, position, orders, trades_log, thread, nreq, entered>>

\* app_options.py
VARIABLES
    OCO_BOOK,      \* parent entry id -> [tp_id, sl_id]
    option_orders, \* broker: the option orders it has accepted; the order id
                   \* is the index
    stream,        \* trade updates the broker has published and the stream
                   \* has not yet delivered
    trade,         \* the /trade handler: control point and locals
    last,          \* history: the latest run of on_trade_update
    ntrades,       \* /trade requests received so far
    nreplays,      \* trade updates the stream has delivered a second time
    flatten        \* flatten_all_options / force_close: control point and
                   \* locals of the run, and what the runs have submitted

optionVars == <<OCO_BOOK, option_orders, stream, trade, last, ntrades, nreplays, flatten>>

\* app_crypto.py
VARIABLES
    DRY_RUN,       \* the process configuration (module global)
    active_orders, \* order tag -> the tracked entry order
    exchange,      \* exchange: the orders it has accepted
    tv,            \* the latest /tv request and its response
    tv_sent,       \* history: the order requests /tv has sent the exchange
    ntv            \* /tv requests received so far

cryptoVars == <<DRY_RUN, active_orders, exchange, tv, tv_sent, ntv>>

\* What a webhook step leaves alone.
\* app_options.py, /force_close: the broker's positions and open orders, and
\* the last run of the handler
VARIABLES broker_positions, broker_orders, force, nforce

forceVars == <<broker_positions, broker_orders, force, nforce>>

\* app_options.py, eod_loop
VARIABLES
    eod_config,         \* EOD_ON, EOD_HHMM
    eod_now,            \* datetime.now(LOCAL_TZ): the date and the minute of the day
    eod_last_run_date,  \* _eod_last_run_date (0: None)
    eod_runs,           \* history: the calls of flatten_all_options the loop has made
    eod_poll            \* the latest pass of the loop

eodVars == <<eod_config, eod_now, eod_last_run_date, eod_runs, eod_poll>>

nonWebhookVars == <<optionVars, cryptoVars, forceVars, eodVars>>

vars == <<webhookVars, optionVars, cryptoVars, forceVars, eodVars>>

(***************************************************************************)
(* Pure helpers of the handlers.                                           *)
(***************************************************************************)
\* str.lower() / str.upper() on the strings the alerts carry.
Lower(s) ==
    CASE s = "Buy" -> "buy"
      [] s = "BUY" -> "buy"
      [] s = "SELL" -> "sell"
      [] OTHER -> s

Upper(s) ==
    CASE s = "aapl" -> "AAPL"
      [] s = "msft" -> "MSFT"
      [] OTHER -> s

\* not all([symbol, action, alert_price_str])
AllPresent(symbol, action, price) == symbol # "" /\ action # "" /\ price.s # "missing"

\* float(alert_price_str) succeeds
Parses(price) == price.s = "num"

\* round(n / d) to the nearest integer, ties to even (Python's round).
RoundDiv(n, d) ==
    LET q == n \div d
        r == n % d
    IN IF 2 * r < d THEN q
       ELSE IF 2 * r > d THEN q + 1
       ELSE IF q % 2 = 0 THEN q ELSE q + 1

\* A test that leaves the weekday out.
is_within_trading_hours_any_day(minute) ==
    IF ~config.ENFORCE_MARKET_HOURS THEN TRUE
    ELSE 240 <= minute /\ minute < 960

\* minute: what the clock shows when the function reads it
is_within_trading_hours(minute) ==
    IF ~config.ENFORCE_MARKET_HOURS THEN TRUE
    ELSE IF Weekday(today) > 4 THEN FALSE
    ELSE 240 <= minute /\ minute < 960

\* time(close_hour, close_minute) as a minute of the day
close_buffer_time ==
    LET m == config.AUTO_CLOSE_BEFORE_MINUTES
        close_hour == IF m >= 60 THEN 15 ELSE 16
        close_minute == IF m < 60 THEN 60 - m ELSE 60 - (m - 60)
    IN close_hour * 60 + close_minute

is_near_market_close(minute) ==
    IF ~config.ENFORCE_MARKET_HOURS THEN FALSE
    ELSE IF Weekday(today) > 4 THEN FALSE
    ELSE close_buffer_time <= minute /\ minute < 960

entry_action == IF config.STRATEGY_TYPE = "long" THEN "buy" ELSE "sell"
exit_action == IF config.STRATEGY_TYPE = "long" THEN "sell" ELSE "buy"

\* get_buying_power(): the amount sizing starts from.
get_buying_power(acct) ==
    IF config.variant = "breakout_bot"
    THEN Min(acct.equity \div 10, acct.buying_power)
    ELSE acct.regt_buying_power

(***************************************************************************)
(* float(): a decimal of c cents becomes the double nearest to c/100.      *)
(* The double has 53 significant bits; what matters to the arithmetic of   *)
(* the handlers is on which side of the decimal it lies.                   *)
(***************************************************************************)
\* e with 2^e <= c/100 < 2^(e+1), for c > 0
RECURSIVE Exponent(_)
Exponent(c) ==
    IF c >= 200 THEN Exponent(c \div 2) + 1
    ELSE IF c < 100 THEN Exponent(2 * c) - 1
    ELSE 0

\* 2^n modulo m
RECURSIVE Pow2Mod(_, _)
Pow2Mod(n, m) == IF n = 0 THEN 1 % m ELSE (2 * Pow2Mod(n - 1, m)) % m

\* The sign of float("c/100") - c/100: the decimal is scaled to 53 bits,
\* c * 2^n / 100 with n = 52 - Exponent(c), and rounded to the nearest
\* integer, ties to even.  Modulo 200 the scaled numerator gives the
\* hundredths that are rounded away and the parity of the integer part.
FloatError(c) ==
    IF c <= 0 THEN 0
    ELSE LET r == ((c % 200) * Pow2Mod(52 - Exponent(c), 200)) % 200
             hundredths == r % 100
         IN IF hundredths = 0 THEN 0
            ELSE IF hundredths < 50 THEN -1
            ELSE IF hundredths > 50 THEN 1
            ELSE IF r >= 100 THEN 1 ELSE -1

\* x // y for the double x = a/100 (a decimal that is a double exactly) and
\* y = float("b/100"): the floor of the quotient of the two doubles.  When
\* b divides a and the double y lies above b/100, the quotient of the
\* doubles lies just below the integer a/b.
FloorDiv(a, b) ==
    IF a > 0 /\ a % b = 0 /\ FloatError(b) > 0 THEN a \div b - 1 ELSE a \div b

\* buying_power * 0.10, for a buying power whose tenth is a double exactly
\* (a multiple of 2.50): the product rounds to that tenth.
trade_allocation(acct) ==
    IF config.variant = "breakout_bot" THEN get_buying_power(acct)
    ELSE get_buying_power(acct) \div 10

\* A quantity rounded up to the next share.
EntryQty_rounded_up(acct, price) == FloorDiv(trade_allocation(acct), price) + 1

\* int(trade_allocation // alert_price)
EntryQty(acct, price) == FloorDiv(trade_allocation(acct), price)

(***************************************************************************)
(* Thread records.                                                         *)
(***************************************************************************)
NoOrder ==
    [symbol |-> "", qty |-> 0, side |-> "", type |-> "", limit_price |-> 0,
     extended_hours |-> FALSE, time_in_force |-> ""]

\* rid: the request served; lookup: the outcome of the last position lookup
\* ("200", "404", "error"; "" before the first); raced: a request for the same symbol that was
\* between its position lookup and its submission when this one looked the
\* position up (0: none); sent: order and close requests made to the broker;
\* account_queries: GET /v2/account requests made; buying_power: what
\* get_buying_power() returned to the sizing (0 before).
Idle ==
    [pc |-> "idle", rid |-> 0, symbol |-> "", action |-> "", alert_price_str |-> NoPrice,
     market_is_open |-> FALSE, path |-> "", lookup |-> "", raced |-> 0,
     current_qty |-> 0, positions |-> {}, npositions |-> 0, success_count |-> 0,
     account_queries |-> 0, buying_power |-> 0,
     order_data |-> NoOrder, sent |-> 0, log |-> {}, result |-> ""]

Return(t, kind) == [t EXCEPT !.pc = "done", !.result = kind]

\* No handler is returning its response.  A handler that has reached its
\* return statement answers before any other thread steps: the answer
\* touches nothing shared, so no interleaving is lost.
Quiet == \A w \in Workers : thread[w].pc # "done"

\* close_all_positions() runs only inside the auto-close window, and only it
\* looks at a symbol other than the alert's.
FlattenReachable ==
    config.ENFORCE_MARKET_HOURS /\ \E m \in Minutes : close_buffer_time <= m /\ m < 960

\* The calendar is read only under market-hours enforcement and by the
\* daily trade log.
TimeMatters == config.ENFORCE_MARKET_HOURS \/ config.variant = "breakout_bot"

\* What the broker keeps of a request it accepted, with the position
\* quantity the handler had seen (seen).  path: "entry", "exit"
\* or "flatten"; verb: "POST" (an order) or "DELETE" (a liquidation).
Accepted(t, verb, path, od) ==
    [rid |-> t.rid, verb |-> verb, path |-> path, symbol |-> od.symbol,
     side |-> od.side, qty |-> od.qty, seen |-> t.current_qty]

\* DELETE /v2/positions/{symbol}: the broker liquidates what it holds.
Liquidation(symbol) ==
    [symbol |-> symbol, qty |-> Abs(position[symbol]),
     side |-> IF position[symbol] > 0 THEN "sell" ELSE "buy", type |-> "market",
     limit_price |-> 0, extended_hours |-> FALSE, time_in_force |-> "day"]

Held(symbol) == IF symbol \in Symbols THEN position[symbol] ELSE 0

\* The broker takes an order only for a symbol it lists, a quantity > 0
\* and, for a limit order, a limit price > 0.
Acceptable(od) ==
    /\ od.symbol \in Symbols
    /\ od.qty > 0
    /\ od.type = "limit" => od.limit_price > 0

\* The handler's result for the broker's answer to a POST or DELETE.
Outcome(resp, ok) ==
    CASE resp = "ok" -> ok
      [] resp = "http_error" -> "BrokerRejected"
      [] OTHER -> "Exception"

\* A thread that has looked the position up and not yet submitted.
Deciding(t) ==
    t.lookup \in {"200", "404"} /\ t.pc \in {"entry_submit", "close_position", "close_submit", "daily_cap"}

\* The request the lookup of thread w races with (0: none).
Racing(w) ==
    LET others == {v \in Workers \ {w} :
                     thread[v].symbol = thread[w].symbol /\ Deciding(thread[v])}
    IN IF others = {} THEN 0 ELSE thread[CHOOSE v \in others : TRUE].rid

Responses == {"ok", "http_error", "network_error"}

\* Answers to GET /v2/positions/{symbol}: "ok" is the broker's usual answer
\* (200 with the quantity held, 404 when nothing is held); "zero" is a 200
\* that reports quantity 0.
Lookups == Responses \cup {"zero"}

(***************************************************************************)
(* The options service before it has served anything.                      *)
(***************************************************************************)
EmptyBook == [p \in {} |-> [tp_id |-> 0, sl_id |-> 0]]

NoRequest ==
    [contracts |-> 0, order_type |-> "", limit_price |-> 0, tp_pct |-> 0, sl_pct |-> 0]

\* entry_id, tp_id, sl_id: 0 until the broker has returned the id
TradeIdle ==
    [pc |-> "idle", req |-> NoRequest, entry_id |-> 0, avg |-> 0, tp_id |-> 0, sl_id |-> 0,
     result |-> ""]

\* seq: runs so far; before, after: OCO_BOOK when the run began and ended;
\* cancels: the orders it asked the broker to cancel, ncancels: how many
\* requests it made; failed: those the broker refused; raised: an exception
\* left the handler; replay: the update had been delivered before.
NoUpdate ==
    [seq |-> 0, event |-> "", oid |-> 0, before |-> EmptyBook, after |-> EmptyBook,
     cancels |-> {}, ncancels |-> 0, failed |-> {}, raised |-> FALSE, replay |-> FALSE]

\* caller: the endpoint that runs ("eod_flatten", "force_close"); run: the
\* runs begun so far; qty: the signed position the broker listed; failed:
\* the close requests of the run the broker refused; closes: history, the
\* closing orders the runs have had accepted, each with its run and side.
FlattenIdle ==
    [pc |-> "idle", caller |-> "", run |-> 0, qty |-> 0, failed |-> 0,
     closes |-> {}, result |-> ""]

OptionsAtRest ==
    /\ OCO_BOOK = EmptyBook
    /\ option_orders = <<>>
    /\ stream = <<>>
    /\ trade = TradeIdle
    /\ last = NoUpdate
    /\ ntrades = 0
    /\ nreplays = 0
    /\ flatten = FlattenIdle

(***************************************************************************)
(* The crypto service before it has served anything.                       *)
(***************************************************************************)
NoTracked == [t \in {} |-> [coinbase_order_id |-> 0, client_order_id |-> <<>>]]

\* sent: the requests the handler made to the exchange
TvIdle ==
    [seq |-> 0, action |-> "", order_id |-> <<>>, client_order_id |-> <<>>,
     sent |-> 0, result |-> ""]

\* The broker account /force_close works on, when nothing is held.
NoPayload == [symbol |-> <<>>, underlying |-> <<>>]

ForceIdle ==
    [seq |-> 0, payload |-> NoPayload, positions |-> <<>>, listing |-> "", canceled |-> {},
     submitted |-> {}, result |-> ""]

ForceAtRest ==
    /\ broker_positions = <<>>
    /\ broker_orders = {}
    /\ force = ForceIdle
    /\ nforce = 0

\* The EOD scheduler before its first pass: a string is the tuple of the
\* codes of its characters ("0" is 48, ":" is 58).
HHMM(minute) ==
    <<48 + ((minute \div 60) \div 10), 48 + ((minute \div 60) % 10), 58,
      48 + ((minute % 60) \div 10), 48 + ((minute % 60) % 10)>>

NoPoll == [seq |-> 0, ran |-> FALSE, raised |-> FALSE]

EodAtRest ==
    /\ eod_config = [EOD_ON |-> FALSE, EOD_HHMM |-> HHMM(780)]
    /\ eod_now = [date |-> 1, minute |-> 0]
    /\ eod_last_run_date = 0
    /\ eod_runs = <<>>
    /\ eod_poll = NoPoll

CryptoAtRest ==
    /\ DRY_RUN = FALSE
    /\ active_orders = NoTracked
    /\ exchange = <<>>
    /\ tv = TvIdle
    /\ tv_sent = <<>>
    /\ ntv = 0

(***************************************************************************)
(* Initial state.                                                          *)
(***************************************************************************)
InitWebhook ==
    /\ OptionsAtRest
    /\ CryptoAtRest
    /\ ForceAtRest
    /\ EodAtRest
    /\ config \in Configs
    /\ today = 0
    /\ position \in {p \in [Symbols -> -MaxPos .. MaxPos] : FlattenReachable \/ p["MSFT"] = 0}
    /\ orders = {}
    /\ trades_log \in IF config.variant = "breakout_bot" THEN {{}, {<<-7, "AAPL">>}} ELSE {{}}
    /\ thread = [w \in Workers |-> Idle]
    /\ nreq = 0
    /\ entered = {}

(***************************************************************************)
(* webhook(): validation, the market-hours checks and the market clock.    *)
(* These steps read the request, the configuration and the clocks only;    *)
(* they are taken together with the step before them.                      *)
(***************************************************************************)
\* After is_market_open(): which branch of the handler the alert takes.
Dispatch(t) ==
    IF config.variant = "breakout_bot" THEN [t EXCEPT !.pc = "position"]
    ELSE IF t.action = exit_action THEN [t EXCEPT !.pc = "close_position", !.path = "exit"]
    ELSE IF t.action = entry_action THEN [t EXCEPT !.pc = "entry_check", !.path = "entry"]
    ELSE Return(t, "NoMatch")

\* resp, open: the broker's answer to GET /v2/clock
IsMarketOpen(t, resp, open) ==
    IF resp # "ok" THEN Return(t, "Exception")
    ELSE Dispatch([t EXCEPT !.market_is_open = open])

\* clk.minute: the minute the wall clock shows while the handler makes its
\* two market-hours checks; clk.resp, clk.open: the broker's clock.
MarketHours(t, clk) ==
    IF config.ENFORCE_MARKET_HOURS /\ is_near_market_close(clk.minute)
    THEN [t EXCEPT !.pc = "list_positions", !.path = "flatten"]
    ELSE IF config.ENFORCE_MARKET_HOURS /\ ~is_within_trading_hours(clk.minute)
    THEN Return(t, "OutsideTradingHours")
    ELSE IsMarketOpen(t, clk.resp, clk.open)

Clocks ==
    [minute : Minutes, resp : {"ok"}, open : BOOLEAN]
    \cup [minute : Minutes, resp : Responses \ {"ok"}, open : {FALSE}]

\* A handler without the kill switch.
WebhookEntry_no_switch(t, clk) ==
    IF config.variant = "breakout_bot" THEN
        LET u == [t EXCEPT !.action = Lower(t.action)]
        IN IF ~AllPresent(u.symbol, u.action, u.alert_price_str)
           THEN Return(u, "InvalidPayload")
           ELSE LET v == [u EXCEPT !.symbol = Upper(u.symbol)]
                IN IF v.action \notin {"buy", "sell"} THEN Return(v, "InvalidAction")
                   ELSE [v EXCEPT !.pc = "cleanup"]
    ELSE IF ~AllPresent(t.symbol, t.action, t.alert_price_str) THEN Return(t, "InvalidPayload")
    ELSE IF config.variant = "app" THEN IsMarketOpen(t, clk.resp, clk.open)
    ELSE MarketHours(t, clk)

WebhookEntry(t, clk) ==
    IF config.variant = "breakout_bot" THEN
        LET u == [t EXCEPT !.action = Lower(t.action)]
        IN IF ~AllPresent(u.symbol, u.action, u.alert_price_str)
           THEN Return(u, "InvalidPayload")
           ELSE LET v == [u EXCEPT !.symbol = Upper(u.symbol)]
                IN IF v.action \notin {"buy", "sell"} THEN Return(v, "InvalidAction")
                   ELSE IF ~config.ENABLE_TRADING THEN Return(v, "TradingDisabled")
                   ELSE [v EXCEPT !.pc = "cleanup"]
    ELSE IF ~AllPresent(t.symbol, t.action, t.alert_price_str) THEN Return(t, "InvalidPayload")
    ELSE IF config.variant = "app" THEN IsMarketOpen(t, clk.resp, clk.open)
    ELSE IF ~config.ENABLE_TRADING THEN Return(t, "TradingDisabled")
    ELSE MarketHours(t, clk)

\* The request goes to a free thread of the pool (the lowest: the threads
\* are interchangeable).
Receive(w, d, clk) ==
    /\ Quiet
    /\ thread[w].pc = "idle"
    /\ \A v \in Workers : v < w => thread[v].pc # "idle"
    /\ nreq < MaxRequests
    /\ nreq' = nreq + 1
    /\ thread' = [thread EXCEPT ![w] =
          WebhookEntry([Idle EXCEPT !.rid = nreq + 1, !.symbol = d.ticker,
                                    !.action = d.action, !.alert_price_str = d.price],
                       clk)]
    /\ UNCHANGED <<config, today, position, orders, trades_log, entered>>
    /\ UNCHANGED nonWebhookVars

(***************************************************************************)
(* breakout_bot: cleanup_old_trades().                                     *)
(***************************************************************************)
OldDates(log) == {e \in log : today - e[1] > 7}

\* load_daily_trades() and the scan for dates to remove
CleanupLoad(w, clk) ==
    /\ Quiet
    /\ thread[w].pc = "cleanup"
    /\ thread' = [thread EXCEPT ![w] =
          IF OldDates(trades_log) = {} THEN MarketHours(@, clk)
          ELSE [@ EXCEPT !.pc = "cleanup_save", !.log = trades_log \ OldDates(trades_log)]]
    /\ UNCHANGED <<config, today, position, orders, trades_log, nreq, entered>>
    /\ UNCHANGED nonWebhookVars

\* save_daily_trades(trades_log)
CleanupSave(w, clk) ==
    /\ Quiet
    /\ thread[w].pc = "cleanup_save"
    /\ trades_log' = thread[w].log
    /\ thread' = [thread EXCEPT ![w] = MarketHours([@ EXCEPT !.log = {}], clk)]
    /\ UNCHANGED <<config, today, position, orders, nreq, entered>>
    /\ UNCHANGED nonWebhookVars

(***************************************************************************)
(* close_all_positions(): list the positions, then one DELETE for each.    *)
(***************************************************************************)
\* resp: the broker's answer to GET /v2/positions
ListPositions(w, resp) ==
    /\ Quiet
    /\ thread[w].pc = "list_positions"
    /\ LET listed == IF resp = "ok" THEN {s \in Symbols : position[s] # 0} ELSE {}
       IN thread' = [thread EXCEPT ![w] =
            IF resp = "network_error" THEN Return(@, "Exception")
            ELSE IF listed = {} THEN Return(@, "AutoClose")
            ELSE [@ EXCEPT !.pc = "close_next", !.positions = listed,
                           !.npositions = Cardinality(listed)]]
    /\ UNCHANGED <<config, today, position, orders, trades_log, nreq, entered>>
    /\ UNCHANGED nonWebhookVars

\* resp: the broker's answer to DELETE /v2/positions/{s}
CloseNext(w, s, resp) ==
    /\ Quiet
    /\ thread[w].pc = "close_next"
    /\ s \in thread[w].positions
    /\ resp = "ok" => position[s] # 0
    /\ orders' = IF resp = "ok"
                 THEN orders \cup {Accepted(thread[w], "DELETE", "flatten", Liquidation(s))}
                 ELSE orders
    /\ LET left == thread[w].positions \ {s}
           count == thread[w].success_count + (IF resp = "ok" THEN 1 ELSE 0)
           t == [thread[w] EXCEPT !.positions = left, !.success_count = count,
                                  !.sent = @ + 1]
       IN thread' = [thread EXCEPT ![w] =
            IF left = {}
            THEN Return(t, IF count = t.npositions THEN "AutoClose" ELSE "AutoCloseErrors")
            ELSE t]
    /\ UNCHANGED <<config, today, position, trades_log, nreq, entered>>
    /\ UNCHANGED nonWebhookVars

(***************************************************************************)
(* get_position_qty(symbol): GET /v2/positions/{symbol}.                   *)
(***************************************************************************)
\* The broker's answer to the lookup.
PositionAnswer(symbol, resp) ==
    IF resp \in {"http_error", "network_error"} THEN [status |-> "error", qty |-> 0]
    ELSE IF resp = "ok" /\ Held(symbol) = 0 THEN [status |-> "404", qty |-> 0]
    ELSE [status |-> "200", qty |-> Held(symbol)]

\* A 200 that reports quantity 0 is an answer only when nothing is held.
Answers(symbol, resp) == resp = "zero" => Held(symbol) = 0

\* A lookup that does not read a 404 as "nothing held".
get_position_qty_raising(ans) ==
    IF ans.status = "200" THEN [err |-> FALSE, qty |-> ans.qty]
    ELSE [err |-> TRUE, qty |-> 0]

\* A lookup that reads every failure as "nothing held".
get_position_qty_lenient(ans) ==
    IF ans.status = "200" THEN [err |-> FALSE, qty |-> ans.qty]
    ELSE IF ans.status = "404" THEN [err |-> FALSE, qty |-> 0]
    ELSE [err |-> FALSE, qty |-> 0]

\* The quantity of the answer; a 404 is read as quantity 0; any other
\* failure is raised to the caller (err).
get_position_qty(ans) ==
    IF ans.status = "200" THEN [err |-> FALSE, qty |-> ans.qty]
    ELSE IF ans.status = "404" THEN [err |-> FALSE, qty |-> 0]
    ELSE [err |-> TRUE, qty |-> 0]

\* Thread w after its lookup.
Looked(w, resp) ==
    LET ans == PositionAnswer(thread[w].symbol, resp)
        got == get_position_qty(ans)
    IN IF got.err THEN Return([thread[w] EXCEPT !.lookup = ans.status], "Exception")
       ELSE [thread[w] EXCEPT !.current_qty = got.qty, !.lookup = ans.status,
                              !.raced = IF thread[w].lookup = "" THEN Racing(w) ELSE @]

(***************************************************************************)
(* close_position(): look the position up, then close it.                  *)
(***************************************************************************)
ClosePositionCheck(w, resp) ==
    /\ Quiet
    /\ thread[w].pc = "close_position"
    /\ Answers(thread[w].symbol, resp)
    /\ thread' = [thread EXCEPT ![w] =
          IF Looked(w, resp).pc = "done" THEN Looked(w, resp)
          ELSE IF Looked(w, resp).current_qty = 0 THEN Return(Looked(w, resp), "NoPositionToExit")
          ELSE [Looked(w, resp) EXCEPT !.pc = "close_submit"]]
    /\ UNCHANGED <<config, today, position, orders, trades_log, nreq, entered>>
    /\ UNCHANGED nonWebhookVars

\* The limit order close_position() builds outside the regular session.
CloseOrder(t) ==
    [symbol |-> t.symbol,
     qty |-> IF config.variant = "breakout_bot" THEN Abs(t.current_qty) ELSE t.current_qty,
     side |-> CASE config.variant = "app" -> "sell"
                [] config.variant = "app_live" ->
                     (IF config.STRATEGY_TYPE = "long" THEN "sell" ELSE "buy")
                [] OTHER -> (IF t.current_qty > 0 THEN "sell" ELSE "buy"),
     type |-> "limit",
     limit_price |-> RoundDiv(t.alert_price_str.v, 1),
     extended_hours |-> TRUE,
     time_in_force |-> IF config.variant = "app" THEN "gtc" ELSE "day"]

\* resp: the broker's answer to the DELETE or the POST
ClosePositionSubmit(w, resp) ==
    /\ Quiet
    /\ thread[w].pc = "close_submit"
    /\ LET t == thread[w]
       IN IF t.market_is_open
          THEN /\ resp = "ok" => Held(t.symbol) # 0
               /\ orders' = IF resp = "ok"
                            THEN orders \cup {Accepted(t, "DELETE", "exit", Liquidation(t.symbol))}
                            ELSE orders
               /\ thread' = [thread EXCEPT ![w] =
                     Return([t EXCEPT !.sent = @ + 1], Outcome(resp, "CloseSubmitted"))]
          ELSE IF ~Parses(t.alert_price_str)
          THEN /\ resp = "ok"
               /\ orders' = orders
               /\ thread' = [thread EXCEPT ![w] = Return(t, "InvalidPrice")]
          ELSE LET od == CloseOrder(t)
               IN /\ resp = "ok" => Acceptable(od)
                  /\ orders' = IF resp = "ok"
                               THEN orders \cup {Accepted(t, "POST", "exit", od)}
                               ELSE orders
                  /\ thread' = [thread EXCEPT ![w] =
                        Return([t EXCEPT !.order_data = od, !.sent = @ + 1],
                               Outcome(resp, "CloseSubmitted"))]
    /\ UNCHANGED <<config, today, position, trades_log, nreq, entered>>
    /\ UNCHANGED nonWebhookVars

(***************************************************************************)
(* The entry branch.                                                       *)
(***************************************************************************)
\* An entry order that is a market order whatever the clock said.
EntryOrder_always_market(t, qty) ==
    [symbol |-> t.symbol, qty |-> qty,
     side |-> IF config.variant = "breakout_bot" THEN t.action ELSE entry_action,
     type |-> "market", limit_price |-> 0, extended_hours |-> FALSE,
     time_in_force |-> "day"]

\* The entry order the handler builds.
EntryOrder(t, qty) ==
    LET price == t.alert_price_str.v
    IN [symbol |-> t.symbol, qty |-> qty,
        side |-> IF config.variant = "breakout_bot" THEN t.action ELSE entry_action,
        type |-> IF t.market_is_open THEN "market" ELSE "limit",
        limit_price |-> IF t.market_is_open THEN 0
                        ELSE IF config.variant = "app" THEN RoundDiv(price * 1001, 1000)
                        ELSE RoundDiv(price, 1),
        extended_hours |-> ~t.market_is_open,
        time_in_force |-> "day"]

\* Sizing that prepares the order whatever the quantity.
EntrySize_unchecked(t, resp, acct) ==
    LET price == t.alert_price_str
        asked == [t EXCEPT !.account_queries = @ + 1]
        sized == [asked EXCEPT !.buying_power = get_buying_power(acct)]
    IN IF resp # "ok"
       THEN Return(asked, IF config.variant = "breakout_bot" THEN "Exception"
                          ELSE "PreparationError")
       ELSE IF ~Parses(price) THEN Return(asked, "InvalidPrice")
       ELSE IF price.v <= 0 THEN Return(asked, "InvalidPrice")
       ELSE [sized EXCEPT !.pc = "entry_submit",
                          !.order_data = EntryOrder(t, EntryQty(acct, price.v))]

\* Position sizing and order preparation.
\* resp, acct: the broker's answer to GET /v2/account
EntrySize(t, resp, acct) ==
    LET price == t.alert_price_str
        asked == [t EXCEPT !.account_queries = @ + 1]
        sized == [asked EXCEPT !.buying_power = get_buying_power(acct)]
    IN IF resp # "ok"
       THEN Return(asked, IF config.variant = "breakout_bot" THEN "Exception"
                          ELSE "PreparationError")
       ELSE IF ~Parses(price) THEN Return(asked, "InvalidPrice")
       ELSE IF price.v <= 0 THEN Return(asked, "InvalidPrice")
       ELSE IF EntryQty(acct, price.v) < 1 THEN Return(sized, "InsufficientFunds")
       ELSE [sized EXCEPT !.pc = "entry_submit",
                          !.order_data = EntryOrder(t, EntryQty(acct, price.v))]

Balances == [resp : Responses, acct : Accounts]

\* app / app_live: if get_position_qty(symbol) > 0: skip the entry;
\* otherwise size the order.
EntryCheck(w, resp, bal) ==
    /\ Quiet
    /\ thread[w].pc = "entry_check"
    /\ Answers(thread[w].symbol, resp)
    /\ thread' = [thread EXCEPT ![w] =
          IF Looked(w, resp).pc = "done" THEN Looked(w, resp)
          ELSE IF Looked(w, resp).current_qty > 0
               THEN Return(Looked(w, resp), "PositionAlreadyExists")
          ELSE EntrySize(Looked(w, resp), bal.resp, bal.acct)]
    /\ UNCHANGED <<config, today, position, orders, trades_log, nreq, entered>>
    /\ UNCHANGED nonWebhookVars

\* breakout_bot: the handler's own position lookup, the price check, and
\* the choice between exit, entry and "already positioned".
BreakoutDispatch(t) ==
    LET price == t.alert_price_str
        exits == \/ t.action = "buy" /\ t.current_qty < 0
                 \/ t.action = "sell" /\ t.current_qty > 0
    IN IF ~Parses(price) THEN Return(t, "InvalidPrice")
       ELSE IF price.v <= 0 THEN Return(t, "InvalidPrice")
       ELSE IF exits THEN [t EXCEPT !.pc = "close_position", !.path = "exit"]
       ELSE IF t.current_qty = 0 THEN [t EXCEPT !.pc = "daily_cap", !.path = "entry"]
       ELSE Return(t, "PositionAlreadyExists")

GetPosition(w, resp) ==
    /\ Quiet
    /\ thread[w].pc = "position"
    /\ Answers(thread[w].symbol, resp)
    /\ thread' = [thread EXCEPT ![w] =
          IF Looked(w, resp).pc = "done" THEN Looked(w, resp)
          ELSE BreakoutDispatch(Looked(w, resp))]
    /\ UNCHANGED <<config, today, position, orders, trades_log, nreq, entered>>
    /\ UNCHANGED nonWebhookVars

(***************************************************************************)
(* The daily trade log: {today_str: {symbol: true}} in daily_trades.json,  *)
(* here the set of its <<day, symbol>> pairs.                              *)
(***************************************************************************)
\* trades_log.get(today_str, {}).get(symbol, False)
Traded(log, day, symbol) == <<day, symbol>> \in log

\* A log keyed by the symbol alone: the mark shows on every day.
Marked_undated(log, day, symbol) == log \cup {<<d, symbol>> : d \in day - 1 .. day + 1}

\* trades_log[today_str][symbol] = True
Marked(log, day, symbol) == log \cup {<<day, symbol>>}

\* A test that reads the entry of the day before.
has_traded_today_stale(symbol) == Traded(trades_log, today - 1, symbol)

has_traded_today(symbol) == Traded(trades_log, today, symbol)

\* A handler that sizes the order before it consults the daily limit.
DailyCap_after_sizing(w, bal) ==
    /\ Quiet
    /\ thread[w].pc = "daily_cap"
    /\ LET sized == EntrySize(thread[w], bal.resp, bal.acct)
       IN thread' = [thread EXCEPT ![w] =
            IF sized.pc = "done" THEN sized
            ELSE IF has_traded_today(sized.symbol)
                 THEN Return([sized EXCEPT !.order_data = NoOrder], "DailyLimit")
            ELSE sized]
    /\ UNCHANGED <<config, today, position, orders, trades_log, nreq, entered>>
    /\ UNCHANGED nonWebhookVars

\* breakout_bot: the daily trade limit, then sizing
DailyCap(w, bal) ==
    /\ Quiet
    /\ thread[w].pc = "daily_cap"
    /\ thread' = [thread EXCEPT ![w] =
          IF has_traded_today(@.symbol) THEN Return(@, "DailyLimit")
          ELSE EntrySize(@, bal.resp, bal.acct)]
    /\ UNCHANGED <<config, today, position, orders, trades_log, nreq, entered>>
    /\ UNCHANGED nonWebhookVars

\* A handler that posts the order once more when the broker has failed.
EntrySubmit_retrying(w, resp) ==
    /\ Quiet
    /\ thread[w].pc = "entry_submit"
    /\ resp = "ok" => Acceptable(thread[w].order_data)
    /\ orders' = IF resp = "ok"
                 THEN orders \cup {Accepted(thread[w], "POST", "entry", thread[w].order_data)}
                 ELSE orders
    /\ thread' = [thread EXCEPT ![w] =
          IF resp = "ok" /\ config.variant = "breakout_bot"
          THEN [@ EXCEPT !.pc = "mark_load", !.sent = @ + 1]
          ELSE Return([@ EXCEPT !.sent = IF resp = "ok" THEN @ + 1 ELSE @ + 2],
                      Outcome(resp, "OrderPlaced"))]
    /\ entered' = IF resp = "ok"
                  THEN entered \cup {[day |-> today, symbol |-> thread[w].symbol,
                                      rid |-> thread[w].rid]}
                  ELSE entered
    /\ UNCHANGED <<config, today, position, trades_log, nreq>>
    /\ UNCHANGED nonWebhookVars

\* resp: the broker's answer to POST /v2/orders
\* A handler that marks the symbol whatever the broker answered.
EntrySubmit_marking_always(w, resp) ==
    /\ Quiet
    /\ thread[w].pc = "entry_submit"
    /\ resp = "ok" => Acceptable(thread[w].order_data)
    /\ orders' = IF resp = "ok"
                 THEN orders \cup {Accepted(thread[w], "POST", "entry", thread[w].order_data)}
                 ELSE orders
    /\ thread' = [thread EXCEPT ![w] =
          IF config.variant = "breakout_bot"
          THEN [@ EXCEPT !.pc = "mark_load", !.sent = @ + 1]
          ELSE Return([@ EXCEPT !.sent = @ + 1], Outcome(resp, "OrderPlaced"))]
    /\ entered' = IF resp = "ok"
                  THEN entered \cup {[day |-> today, symbol |-> thread[w].symbol,
                                      rid |-> thread[w].rid]}
                  ELSE entered
    /\ UNCHANGED <<config, today, position, trades_log, nreq>>
    /\ UNCHANGED nonWebhookVars

EntrySubmit(w, resp) ==
    /\ Quiet
    /\ thread[w].pc = "entry_submit"
    /\ resp = "ok" => Acceptable(thread[w].order_data)
    /\ orders' = IF resp = "ok"
                 THEN orders \cup {Accepted(thread[w], "POST", "entry", thread[w].order_data)}
                 ELSE orders
    /\ thread' = [thread EXCEPT ![w] =
          IF resp = "ok" /\ config.variant = "breakout_bot"
          THEN [@ EXCEPT !.pc = "mark_load", !.sent = @ + 1]
          ELSE Return([@ EXCEPT !.sent = @ + 1], Outcome(resp, "OrderPlaced"))]
    /\ entered' = IF resp = "ok"
                  THEN entered \cup {[day |-> today, symbol |-> thread[w].symbol,
                                      rid |-> thread[w].rid]}
                  ELSE entered
    /\ UNCHANGED <<config, today, position, trades_log, nreq>>
    /\ UNCHANGED nonWebhookVars

\* mark_traded_today(): load the file and set today's entry ...
MarkLoad(w) ==
    /\ Quiet
    /\ thread[w].pc = "mark_load"
    /\ thread' = [thread EXCEPT ![w] =
          [@ EXCEPT !.pc = "mark_save",
                    !.log = Marked(trades_log, today, thread[w].symbol)]]
    /\ UNCHANGED <<config, today, position, orders, trades_log, nreq, entered>>
    /\ UNCHANGED nonWebhookVars

\* ... and write the file back.
MarkSave(w) ==
    /\ Quiet
    /\ thread[w].pc = "mark_save"
    /\ trades_log' = thread[w].log
    /\ thread' = [thread EXCEPT ![w] = Return([@ EXCEPT !.log = {}], "OrderPlaced")]
    /\ UNCHANGED <<config, today, position, orders, nreq, entered>>
    /\ UNCHANGED nonWebhookVars

(***************************************************************************)
(* The environment: the broker executes orders, midnight passes.           *)
(***************************************************************************)
\* A liquidation closes whatever is held when it executes.
BrokerFill(o) ==
    /\ Quiet
    /\ o \in orders
    /\ orders' = orders \ {o}
    /\ position' = [position EXCEPT ![o.symbol] =
                       IF o.verb = "DELETE" THEN 0
                       ELSE IF o.side = "buy" THEN @ + o.qty ELSE @ - o.qty]
    /\ UNCHANGED <<config, today, trades_log, thread, nreq, entered>>
    /\ UNCHANGED nonWebhookVars

Respond(w) ==
    /\ thread[w].pc = "done"
    /\ thread' = [thread EXCEPT ![w] = Idle]
    /\ UNCHANGED <<config, today, position, orders, trades_log, nreq, entered>>
    /\ UNCHANGED nonWebhookVars

NextDay ==
    /\ Quiet
    /\ TimeMatters
    /\ today < MaxDay
    /\ today' = today + 1
    /\ UNCHANGED <<config, position, orders, trades_log, thread, nreq, entered>>
    /\ UNCHANGED nonWebhookVars

\* One alert at a time: the next alert arrives after the previous one has
\* been answered.
Arrive(w, d, clk) ==
    /\ \A v \in Workers : thread[v].pc = "idle"
    /\ Receive(w, d, clk)

NextWebhook ==
    \/ \E w \in Workers, d \in Payloads, clk \in Clocks : Arrive(w, d, clk)
    \/ \E w \in Workers : Respond(w)
    \/ \E w \in Workers, clk \in Clocks : CleanupLoad(w, clk)
    \/ \E w \in Workers, clk \in Clocks : CleanupSave(w, clk)
    \/ \E w \in Workers, resp \in Responses : ListPositions(w, resp)
    \/ \E w \in Workers, s \in Symbols, resp \in Responses : CloseNext(w, s, resp)
    \/ \E w \in Workers, resp \in Lookups : GetPosition(w, resp)
    \/ \E w \in Workers, resp \in Lookups : ClosePositionCheck(w, resp)
    \/ \E w \in Workers, resp \in Responses : ClosePositionSubmit(w, resp)
    \/ \E w \in Workers, resp \in Lookups, bal \in Balances : EntryCheck(w, resp, bal)
    \/ \E w \in Workers, bal \in Balances : DailyCap(w, bal)
    \/ \E w \in Workers, resp \in Responses : EntrySubmit(w, resp)
    \/ \E w \in Workers : MarkLoad(w)
    \/ \E w \in Workers : MarkSave(w)
    \/ \E o \in orders : BrokerFill(o)
    \/ NextDay

SpecWebhook == InitWebhook /\ [][NextWebhook]_vars

(***************************************************************************)
(* Properties of one alert's handling.                                     *)
(***************************************************************************)
Answered(w) == thread[w].pc = "done"

\* C2: an entry alert handled while the broker reports a non-zero position
\* (long or short) sends no order to the broker.
C2_NoEntryOnPosition ==
    \A w \in Workers :
        (thread[w].path = "entry" /\ thread[w].lookup = "200" /\ thread[w].current_qty # 0)
            => thread[w].sent = 0

\* C3: the closing order an exit alert sends has quantity abs(position
\* quantity the broker reported).
C3_ExitQtyIsAbs ==
    \A w \in Workers :
        (Answered(w) /\ thread[w].path = "exit" /\ thread[w].order_data # NoOrder)
            => thread[w].order_data.qty = Abs(thread[w].current_qty)

\* C4: a closing order the broker accepted sells when the reported position
\* is long and buys when it is short.
C4_ExitSideOpposesPosition ==
    \A w \in Workers :
        (/\ Answered(w)
         /\ thread[w].path = "exit"
         /\ thread[w].order_data # NoOrder
         /\ thread[w].result = "CloseSubmitted")
            => thread[w].order_data.side = IF thread[w].current_qty > 0 THEN "sell" ELSE "buy"

\* The broker reported no position to the exit alert of thread w: a 404, or
\* a 200 with quantity 0.
ReportedFlat(w) ==
    /\ thread[w].path = "exit"
    /\ \/ thread[w].lookup = "404"
       \/ thread[w].lookup = "200" /\ thread[w].current_qty = 0

\* C5: an exit alert for which the broker reports no position (quantity 0
\* or not found) sends neither an order nor a close call, and is answered
\* "no position to exit".
C5_FlatExitSendsNothing ==
    \A w \in Workers :
        (Answered(w) /\ ReportedFlat(w))
            => /\ thread[w].result = "NoPositionToExit"
               /\ thread[w].sent = 0
               /\ \A o \in orders : o.rid # thread[w].rid

C5_Witness ==
    \E w \in Workers :
        /\ Answered(w)
        /\ ReportedFlat(w)
        /\ thread[w].lookup = "404"
        /\ position[thread[w].symbol] = 0
        /\ thread[w].result = "NoPositionToExit"

(***************************************************************************)
(* Properties of the daily trade limit (breakout_bot), one alert at a      *)
(* time.                                                                   *)
(***************************************************************************)
\* The broker accepted an entry order for the symbol of thread w today, from
\* an earlier request.
EarlierEntry(w) ==
    \E e \in entered :
        e.day = today /\ e.symbol = thread[w].symbol /\ e.rid < thread[w].rid

\* C11: with one alert handled at a time, the broker accepts at most one
\* entry order per symbol and day, and an entry alert that follows an
\* accepted entry for its symbol on the same day is answered "daily limit
\* reached" and sends nothing.
C11_OneEntryPerDay ==
    config.variant = "breakout_bot" =>
        /\ \A a, b \in entered : (a.day = b.day /\ a.symbol = b.symbol) => a = b
        /\ \A w \in Workers :
              (Answered(w) /\ thread[w].path = "entry" /\ EarlierEntry(w))
                  => thread[w].result = "DailyLimit" /\ thread[w].sent = 0

C11_Witness ==
    \E w \in Workers :
        /\ config.variant = "breakout_bot"
        /\ Answered(w)
        /\ thread[w].path = "entry"
        /\ EarlierEntry(w)
        /\ thread[w].result = "DailyLimit"

\* The alert thread w serves has its three fields and, for breakout_bot, a
\* known action.
ValidSignal(w) ==
    /\ AllPresent(thread[w].symbol, thread[w].action, thread[w].alert_price_str)
    /\ config.variant = "breakout_bot" => thread[w].action \in {"buy", "sell"}

\* C15: with ENABLE_TRADING off the broker receives no order, no close and
\* no flatten-all, no handler gets past the kill switch to the market-hours
\* checks, and every valid alert is answered "trading disabled".
C15_KillSwitch ==
    ~config.ENABLE_TRADING =>
        /\ orders = {}
        /\ entered = {}
        /\ \A w \in Workers :
              /\ thread[w].pc \in {"idle", "done"}
              /\ thread[w].sent = 0
              /\ thread[w].path = ""
              /\ (Answered(w) /\ ValidSignal(w)) => thread[w].result = "TradingDisabled"

\* A valid alert is answered "trading disabled" while a position is open,
\* market hours are enforced and the auto-close window is an hour wide.
C15_Witness ==
    \E w \in Workers :
        /\ ~config.ENABLE_TRADING
        /\ config.ENFORCE_MARKET_HOURS
        /\ config.AUTO_CLOSE_BEFORE_MINUTES = 65
        /\ Answered(w)
        /\ ValidSignal(w)
        /\ Held(thread[w].symbol) # 0
        /\ thread[w].result = "TradingDisabled"

(***************************************************************************)
(* Properties of the market-hours checks.                                  *)
(***************************************************************************)
\* A thread that holds a well-formed alert and has passed the kill switch.
Alerted(action) ==
    [Idle EXCEPT !.rid = 1, !.symbol = "AAPL", !.action = action,
                 !.alert_price_str = Num(30000)]

\* The minute lies in the last AUTO_CLOSE_BEFORE_MINUTES minutes before the
\* 16:00 close of a weekday.
InCloseBuffer(minute) ==
    /\ Weekday(today) <= 4
    /\ 960 - config.AUTO_CLOSE_BEFORE_MINUTES <= minute
    /\ minute < 960

\* C16: with market hours enforced, an alert handled inside the auto-close
\* buffer, whatever its action, goes to close_all_positions() and to no
\* position lookup; and a handler that closed all positions has sent one
\* close for every position the broker listed and looked no position up.
C16_FlattenInBuffer ==
    /\ (config.ENFORCE_MARKET_HOURS /\ config.ENABLE_TRADING /\ config.variant # "app") =>
          \A clk \in Clocks, action \in {"buy", "sell"} :
              InCloseBuffer(clk.minute) =>
                  LET t == MarketHours(Alerted(action), clk)
                  IN t.pc = "list_positions" /\ t.path = "flatten" /\ t.lookup = ""
    /\ \A w \in Workers :
          (Answered(w) /\ thread[w].path = "flatten"
                       /\ thread[w].result \in {"AutoClose", "AutoCloseErrors"})
              => /\ thread[w].sent = thread[w].npositions
                 /\ thread[w].lookup = ""
                 /\ thread[w].account_queries = 0

\* The minute lies outside [04:00, 16:00) of a weekday.
OutsideHours(minute) == Weekday(today) > 4 \/ minute < 240 \/ minute >= 960

\* C17: with market hours enforced, an alert handled on a weekend or
\* outside [04:00, 16:00) is answered "outside trading hours" and nothing
\* is sent for it; inside the window it is not answered so.
C17_BlockedOutsideHours ==
    /\ (config.ENFORCE_MARKET_HOURS /\ config.ENABLE_TRADING /\ config.variant # "app") =>
          \A clk \in Clocks, action \in {"buy", "sell"} :
              LET t == MarketHours(Alerted(action), clk)
              IN IF OutsideHours(clk.minute)
                 THEN /\ t.pc = "done"
                      /\ t.result = "OutsideTradingHours"
                      /\ t.sent = 0
                 ELSE t.result # "OutsideTradingHours"
    /\ \A w \in Workers :
          (Answered(w) /\ thread[w].result = "OutsideTradingHours")
              => /\ config.ENFORCE_MARKET_HOURS
                 /\ thread[w].sent = 0
                 /\ thread[w].lookup = ""
                 /\ thread[w].path = ""
                 /\ \A o \in orders : o.rid # thread[w].rid

\* An alert is answered "outside trading hours" on a Saturday while a
\* position is open.
C17_Witness ==
    \E w \in Workers :
        /\ Answered(w)
        /\ thread[w].result = "OutsideTradingHours"
        /\ Weekday(today) = 5
        /\ Held(thread[w].symbol) # 0
        /\ thread[w].sent = 0

\* Thread w has sent the broker the order or the liquidation of an entry or
\* an exit.
Submitted(w) == thread[w].sent > 0 /\ thread[w].path \in {"entry", "exit"}

\* The 0.1% of the alert price that app.py moves an entry limit by (cents,
\* before rounding: thousandths of the price).
buffer(price) == price

\* C18: every entry or exit the handler has submitted is a market order (or
\* the broker's market liquidation, which carries no order body) when the
\* clock said the market is open, and otherwise a limit order with the
\* extended-hours flag, priced from the alert price (the price itself, or
\* for app.py's entries the price moved by the buffer); no market order and
\* no liquidation is sent while the market is not open.
C18_OrderTypeFollowsSession ==
    \A w \in Workers :
        Submitted(w) =>
            LET t == thread[w]
                od == t.order_data
            IN IF t.market_is_open
               THEN \/ od.type = "market" /\ ~od.extended_hours /\ t.path = "entry"
                    \/ od = NoOrder /\ t.path = "exit"
               ELSE /\ od.type = "limit"
                    /\ od.extended_hours
                    /\ Parses(t.alert_price_str)
                    /\ od.limit_price \in
                          { t.alert_price_str.v,
                            RoundDiv(1000 * t.alert_price_str.v + buffer(t.alert_price_str.v), 1000) }

\* With the market closed, app.py has had a limit entry accepted at the
\* alert price of 300.00 moved to 300.30.
C18_Witness ==
    \E w \in Workers :
        /\ config.variant = "app"
        /\ Answered(w) /\ Submitted(w) /\ thread[w].path = "entry"
        /\ ~thread[w].market_is_open
        /\ thread[w].order_data.type = "limit"
        /\ thread[w].order_data.limit_price = 30030
        /\ thread[w].result = "OrderPlaced"
        /\ \E o \in orders : o.rid = thread[w].rid /\ o.verb = "POST"

\* C19: an extended-hours entry limit that app.py has moved by its buffer
\* is the alert price plus the buffer for a buy and the alert price minus
\* the buffer for a sell.
C19_BufferFavorsFill ==
    \A w \in Workers :
        (/\ config.variant = "app"
         /\ thread[w].path = "entry"
         /\ thread[w].order_data.type = "limit")
            => LET price == thread[w].alert_price_str.v
                   od == thread[w].order_data
               IN od.limit_price =
                      IF od.side = "buy"
                      THEN RoundDiv(1000 * price + buffer(price), 1000)
                      ELSE RoundDiv(1000 * price - buffer(price), 1000)

\* The days a log can hold an entry for, and the day after.
Days == -8 .. MaxDay + 2

\* C12: marking symbol s on day D makes has_traded_today(s) true on D, and
\* changes it neither for s on another day nor for another symbol on any
\* day; a request that had its entry accepted and marked today finds its
\* symbol traded today.
C12_MarkIsPerDayPerSymbol ==
    /\ \A s \in Symbols, D \in Days :
          LET after == Marked(trades_log, D, s)
          IN /\ Traded(after, D, s)
             /\ \A d \in Days \ {D} : Traded(after, d, s) = Traded(trades_log, d, s)
             /\ \A d \in Days, o \in Symbols \ {s} :
                   Traded(after, d, o) = Traded(trades_log, d, o)
    /\ \A w \in Workers :
          (/\ Answered(w)
           /\ config.variant = "breakout_bot"
           /\ thread[w].result = "OrderPlaced"
           /\ \E e \in entered : e.rid = thread[w].rid /\ e.day = today)
              => /\ has_traded_today(thread[w].symbol)
                 /\ ~Traded(trades_log, today + 1, thread[w].symbol)
                 /\ \A o \in Symbols \ {thread[w].symbol} : ~has_traded_today(o)

\* An entry was accepted and marked today, next to an entry of an earlier
\* day that the log still holds.
C12_Witness ==
    \E w \in Workers :
        /\ Answered(w)
        /\ config.variant = "breakout_bot"
        /\ thread[w].result = "OrderPlaced"
        /\ \E e \in entered : e.rid = thread[w].rid /\ e.day = today
        /\ has_traded_today(thread[w].symbol)
        /\ \E d \in Days : d < today /\ Traded(trades_log, d, thread[w].symbol)

\* C13: a request answered "daily limit reached" has made no account query.
C13_CapBeforeSizing ==
    \A w \in Workers :
        (Answered(w) /\ thread[w].result = "DailyLimit") => thread[w].account_queries = 0

C13_Witness ==
    \E w \in Workers :
        /\ Answered(w)
        /\ thread[w].result = "DailyLimit"
        /\ thread[w].account_queries = 0
        /\ thread[w].sent = 0
        /\ has_traded_today(thread[w].symbol)

(***************************************************************************)
(* Two alerts in flight: the threads of the server interleave at every     *)
(* broker and file access.  Well-formed alerts, trading enabled, no        *)
(* market-hours enforcement, within one day.                               *)
(***************************************************************************)
TradeAlerts == {d \in Payloads : d.ticker = "AAPL" /\ d.price = Num(30000)
                                 /\ d.action \in {"buy", "sell"}}

InitConcurrent ==
    /\ InitWebhook
    /\ config.ENABLE_TRADING
    /\ ~config.ENFORCE_MARKET_HOURS
    /\ trades_log = {}

NextConcurrent ==
    \/ \E w \in Workers, d \in TradeAlerts, clk \in Clocks : Receive(w, d, clk)
    \/ \E w \in Workers : Respond(w)
    \/ \E w \in Workers, clk \in Clocks : CleanupLoad(w, clk)
    \/ \E w \in Workers, resp \in Lookups : GetPosition(w, resp)
    \/ \E w \in Workers, resp \in Lookups : ClosePositionCheck(w, resp)
    \/ \E w \in Workers, resp \in Responses : ClosePositionSubmit(w, resp)
    \/ \E w \in Workers, resp \in Lookups, bal \in Balances : EntryCheck(w, resp, bal)
    \/ \E w \in Workers, bal \in Balances : DailyCap(w, bal)
    \/ \E w \in Workers, resp \in Responses : EntrySubmit(w, resp)
    \/ \E w \in Workers : MarkLoad(w)
    \/ \E w \in Workers : MarkSave(w)
    \/ \E o \in orders : BrokerFill(o)

SpecConcurrent == InitConcurrent /\ [][NextConcurrent]_vars

\* Thread w has submitted on the given path after looking the position up
\* while another request for the same symbol was between its own lookup and
\* submission, and the broker has accepted that request's order on the same
\* path too.  flat: whether the two saw no position, or a position.
BothSubmitted(w, path, flat) ==
    /\ Answered(w)
    /\ thread[w].path = path
    /\ thread[w].sent > 0
    /\ thread[w].raced # 0
    /\ (thread[w].current_qty = 0) = flat
    /\ \E o \in orders :
          /\ o.rid = thread[w].raced
          /\ o.path = path
          /\ o.symbol = thread[w].symbol
          /\ (o.seen = 0) = flat

\* C1: of two entry alerts for one symbol handled concurrently while the
\* position is flat, at most one submits an entry order.
C1_OneEntryOfTwo == \A w \in Workers : ~BothSubmitted(w, "entry", TRUE)

\* C6: of two exit alerts for one symbol handled concurrently while a
\* position is open, at most one submits a closing order.
C6_OneExitOfTwo == \A w \in Workers : ~BothSubmitted(w, "exit", FALSE)

(***************************************************************************)
(* breakout_bot: entry alerts for two symbols in flight on one day, over   *)
(* a trade log that may hold an entry old enough to be cleaned up.         *)
(***************************************************************************)
CapAlerts == [ticker : Symbols, action : {"buy"}, price : {Num(30000)}]

InitDailyLog ==
    /\ OptionsAtRest
    /\ CryptoAtRest
    /\ ForceAtRest
    /\ EodAtRest
    /\ config = [variant |-> "breakout_bot", STRATEGY_TYPE |-> "long",
                 ENABLE_TRADING |-> TRUE, ENFORCE_MARKET_HOURS |-> FALSE,
                 AUTO_CLOSE_BEFORE_MINUTES |-> 5]
    /\ today = 0
    /\ position = [s \in Symbols |-> 0]
    /\ orders = {}
    /\ trades_log \in {{}, {<<-8, "AAPL">>}}
    /\ thread = [w \in Workers |-> Idle]
    /\ nreq = 0
    /\ entered = {}

NextDailyLog ==
    \/ \E w \in Workers, d \in CapAlerts, clk \in Clocks : Receive(w, d, clk)
    \/ \E w \in Workers : Respond(w)
    \/ \E w \in Workers, clk \in Clocks : CleanupLoad(w, clk)
    \/ \E w \in Workers, clk \in Clocks : CleanupSave(w, clk)
    \/ \E w \in Workers, resp \in Lookups : GetPosition(w, resp)
    \/ \E w \in Workers, bal \in Balances : DailyCap(w, bal)
    \/ \E w \in Workers, resp \in Responses : EntrySubmit(w, resp)
    \/ \E w \in Workers : MarkLoad(w)
    \/ \E w \in Workers : MarkSave(w)

SpecDailyLog == InitDailyLog /\ [][NextDailyLog]_vars

\* C14: when every handler has returned, each symbol that had an entry
\* accepted and marked today is traded today: no mark is lost to a
\* concurrent mark or cleanup.
C14_MarksNotLost ==
    (\A w \in Workers : thread[w].pc = "idle")
        => \A e \in entered : e.day = today => has_traded_today(e.symbol)

(***************************************************************************)
(* Properties of the handlers' error handling.                             *)
(***************************************************************************)
\* Thread w has had the account's answer and a positive price: it has
\* computed a quantity.
Sized(w) ==
    /\ thread[w].path = "entry"
    /\ thread[w].account_queries > 0
    /\ Parses(thread[w].alert_price_str)
    /\ thread[w].alert_price_str.v > 0
    /\ thread[w].result \notin {"PreparationError", "Exception"}

\* C21: an entry whose computed quantity is below one is answered as
\* unaffordable and nothing is sent or prepared for it; every entry order
\* prepared or submitted asks for a whole number of shares, at least one.
C21_NoOrderBelowOneShare ==
    \A w \in Workers :
        LET t == thread[w]
        IN /\ Sized(w) =>
                IF t.result = "InsufficientFunds"
                THEN /\ t.sent = 0
                     /\ t.order_data = NoOrder
                     /\ \A o \in orders : o.rid # t.rid
                ELSE t.order_data.qty \in Nat /\ t.order_data.qty >= 1
           /\ (t.path = "entry" /\ (t.pc = "entry_submit" \/ t.sent > 0))
                => t.order_data.qty \in Nat /\ t.order_data.qty >= 1

\* An entry at 300.00 against a tenth of 2000.00 is answered as
\* unaffordable.
C21_Witness ==
    \E w \in Workers :
        /\ Answered(w)
        /\ Sized(w)
        /\ thread[w].result = "InsufficientFunds"
        /\ thread[w].buying_power > 0
        /\ thread[w].sent = 0

\* C24: a handler sends the broker at most one order or close request for
\* the alert's entry or exit (and, when it flattens, one for each listed
\* position); the broker has accepted at most one order of the request for
\* the alert's symbol; after a submission that failed the handler answers
\* with an error, having sent once.
C24_AtMostOnce ==
    \A w \in Workers :
        LET t == thread[w]
        IN /\ t.path \in {"entry", "exit"} => t.sent <= 1
           /\ (t.path = "flatten" /\ t.pc \in {"close_next", "done"} /\ t.npositions > 0)
                => t.sent = t.npositions - Cardinality(t.positions)
           /\ Cardinality({o \in orders : o.rid = t.rid /\ o.symbol = t.symbol}) <= 1
           /\ (Answered(w) /\ Submitted(w) /\ t.result \notin {"OrderPlaced", "CloseSubmitted"})
                => /\ t.result \in {"BrokerRejected", "Exception"}
                   /\ t.sent = 1
                   /\ \A o \in orders : o.rid # t.rid

\* The broker has refused app.py's entry order: the handler answers with
\* the broker's error after one request.
C24_Witness ==
    \E w \in Workers :
        /\ config.variant = "app"
        /\ Answered(w)
        /\ thread[w].path = "entry"
        /\ thread[w].order_data # NoOrder
        /\ thread[w].result = "BrokerRejected"
        /\ thread[w].sent = 1

\* C26: a 404 from the position lookup means "nothing held": an exit is
\* answered "no position to exit" with nothing sent, an entry goes on to
\* the daily limit and to sizing.  Any other failure of the lookup ends the
\* request with the error, nothing sized and nothing sent.
C26_NotFoundIsFlat ==
    \A w \in Workers :
        LET t == thread[w]
        IN /\ (Answered(w) /\ t.lookup = "404" /\ t.path = "exit")
                => /\ t.result = "NoPositionToExit"
                   /\ t.sent = 0
           /\ (Answered(w) /\ t.lookup = "404" /\ t.path = "entry")
                => /\ t.current_qty = 0
                   /\ t.result # "PositionAlreadyExists"
                   /\ t.account_queries > 0 \/ t.result = "DailyLimit"
           /\ t.lookup = "error"
                => /\ Answered(w)
                   /\ t.result = "Exception"
                   /\ t.sent = 0
                   /\ t.account_queries = 0
                   /\ \A o \in orders : o.rid # t.rid

C26_Witness ==
    \E w \in Workers :
        /\ Answered(w)
        /\ thread[w].path = "entry"
        /\ thread[w].lookup = "404"
        /\ thread[w].result = "OrderPlaced"
        /\ \E o \in orders : o.rid = thread[w].rid

\* C27: whatever the broker does (a lookup that fails other than with 404,
\* a failed clock or account query, a transport error on the order or the
\* close), the request is answered with a result of the handler's own: no
\* exception leaves the handler.
C27_NoFailureEscapes ==
    \A w \in Workers :
        thread[w].pc = "done" => thread[w].result # "Exception"

\* The alert of thread t is one the handler should refuse: no symbol, an
\* action that is neither the entry nor the exit action, or, for the exit
\* of a held position outside the regular session, a price that is not a
\* number above 0.
Malformed(t) ==
    \/ t.symbol = ""
    \/ t.action \notin {entry_action, exit_action}
    \/ /\ t.path = "exit"
       /\ t.pc \in {"close_submit", "done"}
       /\ t.lookup = "200"
       /\ t.current_qty # 0
       /\ ~t.market_is_open
       /\ ~Parses(t.alert_price_str) \/ t.alert_price_str.v <= 0

\* Results of a request that was stopped before its alert was looked at.
Stopped == {"TradingDisabled", "AutoClose", "OutsideTradingHours", "Exception"}

\* C28: a malformed alert is answered with an invalid-payload error (unless
\* the kill switch, the market-hours checks or a broker failure stopped the
\* request first), and no order or close request is made for it.
C28_ValidationPrecedesOrders ==
    \A w \in Workers :
        (Answered(w) /\ Malformed(thread[w]))
            => /\ ~Submitted(w)
               /\ \A o \in orders : o.rid # thread[w].rid
               /\ thread[w].result \in {"InvalidPayload", "InvalidAction", "InvalidPrice"} \cup Stopped

\* C30: with market hours enforced and a buffer of m minutes, 0 < m < 60
\* (5 as configured), is_near_market_close() is true at exactly the minutes
\* of a weekday from 16:00 - m up to, not including, 16:00.
C30_NearCloseIsTheBuffer ==
    (config.ENFORCE_MARKET_HOURS /\ config.AUTO_CLOSE_BEFORE_MINUTES \in 1 .. 59)
        => \A minute \in 0 .. 1439 : is_near_market_close(minute) <=> InCloseBuffer(minute)

\* The broker accepted an entry order for the symbol on the date, or on the
\* date before (the mark is dated when it is written, and midnight may pass
\* between the acceptance and the mark).
AcceptedFor(symbol, day) ==
    \E a \in entered : a.symbol = symbol /\ a.day \in {day - 1, day}

\* C38: the daily log holds a mark for a symbol and a date of the run only
\* if the broker accepted an entry order for that symbol; so an entry that
\* was rejected or suppressed leaves no mark, and an entry signal is
\* answered "daily limit" only after an accepted entry.
C38_MarkOnlyAfterAccepted ==
    config.variant = "breakout_bot" =>
        /\ \A e \in trades_log : e[1] >= 0 => AcceptedFor(e[2], e[1])
        /\ \A w \in Workers :
              /\ thread[w].pc \in {"mark_load", "mark_save"}
                    => \E a \in entered : a.rid = thread[w].rid
              /\ (Answered(w) /\ thread[w].result = "DailyLimit")
                    => AcceptedFor(thread[w].symbol, today)

C38_Witness ==
    \E w \in Workers :
        /\ config.variant = "breakout_bot"
        /\ Answered(w)
        /\ thread[w].path = "entry"
        /\ thread[w].sent = 1
        /\ thread[w].result = "BrokerRejected"
        /\ ~has_traded_today(thread[w].symbol)
        /\ \A a \in entered : a.rid # thread[w].rid

\* The amount the handler may spend on the entry of thread t, in tenths of
\* a cent: a tenth of the buying power it read (app, app_live), or all of
\* what get_buying_power() returned (breakout_bot).
Allocation10(t) ==
    IF config.variant = "breakout_bot" THEN 10 * t.buying_power ELSE t.buying_power

\* C39: for every entry order prepared or submitted, quantity times the
\* alert price is at most the allocated amount (for breakout_bot the lesser
\* of a tenth of the equity and the buying power), and the order's value at
\* its limit price is at most the buying power read.
C39_NotionalWithinAllocation ==
    /\ \A acct \in Accounts :
          config.variant = "breakout_bot"
              => /\ 10 * get_buying_power(acct) <= acct.equity
                 /\ get_buying_power(acct) <= acct.buying_power
    /\ \A w \in Workers :
          LET t == thread[w]
          IN (t.path = "entry" /\ t.order_data # NoOrder)
                => /\ t.order_data.qty >= 1
                   /\ 10 * t.order_data.qty * t.alert_price_str.v <= Allocation10(t)
                   /\ t.order_data.qty * t.order_data.limit_price <= t.buying_power

C39_Witness ==
    \E w \in Workers :
        /\ config.variant = "breakout_bot"
        /\ Answered(w)
        /\ thread[w].path = "entry"
        /\ thread[w].result = "OrderPlaced"
        /\ thread[w].buying_power = 40000
        /\ thread[w].order_data.qty * thread[w].alert_price_str.v = 30000

(***************************************************************************)
(* app.py, app_live.py: position sizing.  Entry alerts at several prices,  *)
(* with the position flat, against accounts of several sizes.              *)
(***************************************************************************)
\* Alert prices of 1.60, 8.80, 100.00 and 300.00, of zero and below zero.
SizingAlerts ==
    [ticker : {"AAPL"}, action : {"buy"},
     price : {Num(160), Num(880), Num(10000), Num(30000), Num(0), Num(-100)}]

\* Buying powers of 10000.00, 5000.00, 11000.00 and nothing (cents); the
\* tenth of each is a double exactly.
SizingAccounts ==
    { [regt_buying_power |-> bp, equity |-> bp, buying_power |-> bp] :
          bp \in {1000000, 500000, 1100000, 0} }

SizingBalances == [resp : Responses, acct : SizingAccounts]

InitSizing ==
    /\ OptionsAtRest
    /\ CryptoAtRest
    /\ ForceAtRest
    /\ EodAtRest
    /\ config \in [variant : {"app", "app_live"}, STRATEGY_TYPE : {"long"},
                    ENABLE_TRADING : {TRUE}, ENFORCE_MARKET_HOURS : {FALSE},
                    AUTO_CLOSE_BEFORE_MINUTES : {5}]
    /\ today = 0
    /\ position = [s \in Symbols |-> 0]
    /\ orders = {}
    /\ trades_log = {}
    /\ thread = [w \in Workers |-> Idle]
    /\ nreq = 0
    /\ entered = {}

NextSizing ==
    \/ \E w \in Workers, d \in SizingAlerts, clk \in Clocks : Arrive(w, d, clk)
    \/ \E w \in Workers : Respond(w)
    \/ \E w \in Workers, resp \in Lookups, bal \in SizingBalances : EntryCheck(w, resp, bal)
    \/ \E w \in Workers, resp \in Responses : EntrySubmit(w, resp)
    \/ \E o \in orders : BrokerFill(o)

SpecSizing == InitSizing /\ [][NextSizing]_vars

\* C20: an entry sized from a buying power and a positive alert price asks
\* for floor(buying power * 0.10 / price) shares (and is skipped as
\* unaffordable exactly when that is below one); an alert whose price is
\* zero or less, once the account has answered, is answered with the
\* invalid-price error and no order.
C20_QtyIsFloorOfTenth ==
    \A w \in Workers :
        LET t == thread[w]
            price == t.alert_price_str.v
            shares == (t.buying_power \div 10) \div price
        IN (/\ config.variant \in {"app", "app_live"}
            /\ t.path = "entry"
            /\ t.account_queries > 0
            /\ Parses(t.alert_price_str)
            /\ t.result \notin {"PreparationError", "Exception"})
               => IF price <= 0
                  THEN t.pc = "done" /\ t.result = "InvalidPrice" /\ t.sent = 0
                  ELSE IF t.result = "InsufficientFunds" THEN shares < 1
                  ELSE t.order_data.qty = shares /\ shares >= 1

(***************************************************************************)
(* app_options.py: /trade, the bracket children and the trade-update       *)
(* stream.  Premiums are in cents, percentages in whole percents.          *)
(***************************************************************************)
MaxTrades == 1        \* /trade requests received in one run
MaxReplays == 1       \* trade updates delivered a second time in one run
MaxPending == 2       \* trade updates published and not yet delivered

Premiums == {250}                \* prices the market trades at

\* limit_price 0: the request carries none
TradeRequests ==
    [contracts : {1, 2}, order_type : {"market"}, limit_price : {0},
     tp_pct : {35}, sl_pct : {50}]
    \cup [contracts : {1, 2}, order_type : {"limit"}, limit_price : {0, 120},
          tp_pct : {35}, sl_pct : {50}]

Legs == {"tp_id", "sl_id"}
Ended == {"canceled", "rejected", "expired"}

\* An order the broker has accepted.  kind and parent are bookkeeping of the
\* model: which request of /trade created the order, and for which entry.
Order(kind, parent, qty, type, limit_price, stop_price) ==
    [kind |-> kind, parent |-> parent, qty |-> qty, type |-> type,
     limit_price |-> limit_price, stop_price |-> stop_price,
     status |-> "new", filled_qty |-> 0, filled_avg_price |-> 0]

Open(o) == o.status \in {"new", "partially_filled"}

\* The prices the broker may execute an order at: a limit order at its
\* limit or better, a stop order at its stop price, a market order at any.
Executions(o) ==
    CASE o.type = "limit" -> {px \in Premiums \cup {o.limit_price} :
                                IF o.kind = "entry" THEN px <= o.limit_price
                                ELSE px = o.limit_price}
      [] o.type = "stop" -> {o.stop_price}
      [] OTHER -> Premiums

WebhookAtRest ==
    /\ config = [variant |-> "app", STRATEGY_TYPE |-> "long", ENABLE_TRADING |-> TRUE,
                 ENFORCE_MARKET_HOURS |-> FALSE, AUTO_CLOSE_BEFORE_MINUTES |-> 5]
    /\ today = 0
    /\ position = [s \in Symbols |-> 0]
    /\ orders = {}
    /\ trades_log = {}
    /\ thread = [w \in Workers |-> Idle]
    /\ nreq = 0
    /\ entered = {}

InitOptions ==
    /\ WebhookAtRest
    /\ OptionsAtRest
    /\ CryptoAtRest
    /\ ForceAtRest
    /\ EodAtRest

\* The /trade handler answers as soon as it has a result.
Serving == trade.pc # "done"

\* /trade and /eod_flatten are coroutines of one event loop, and
\* flatten_all_options() awaits nothing: while it runs, /trade does not.
LoopFree == ~(flatten.pc # "idle" /\ flatten.caller = "eod_flatten")

TradeReturn(t, kind) == [t EXCEPT !.pc = "done", !.result = kind]

(***************************************************************************)
(* /trade: the entry order.                                                *)
(***************************************************************************)
\* found: choose_contract_symbol() returned a contract; resp: the broker's
\* answer to the entry order
Trade(req, found, resp) ==
    /\ LoopFree
    /\ Serving
    /\ trade.pc = "idle"
    /\ ntrades < MaxTrades
    /\ ntrades' = ntrades + 1
    /\ LET t == [TradeIdle EXCEPT !.req = req]
           entry == Order("entry", 0, req.contracts, req.order_type,
                          IF req.order_type = "limit" THEN req.limit_price ELSE 0, 0)
       IN IF ~found
          THEN trade' = TradeReturn(t, "NoContract") /\ option_orders' = option_orders
          ELSE IF req.order_type = "limit" /\ req.limit_price = 0
          THEN trade' = TradeReturn(t, "LimitPriceRequired") /\ option_orders' = option_orders
          ELSE IF resp # "ok"
          THEN trade' = TradeReturn(t, "Exception") /\ option_orders' = option_orders
          ELSE /\ option_orders' = Append(option_orders, entry)
               /\ trade' = [t EXCEPT !.pc = "wait", !.entry_id = Len(option_orders) + 1]
    /\ UNCHANGED <<OCO_BOOK, stream, last, nreplays, webhookVars, cryptoVars, forceVars, eodVars, flatten>>

(***************************************************************************)
(* wait_for_fill(): poll the entry order until it is filled, dead, or the  *)
(* deadline has passed.                                                    *)
(***************************************************************************)
\* A test that takes any execution for the fill.
Filled_partly(o) == o.filled_qty # 0

\* o.filled_qty and float(o.filled_qty) >= float(o.qty)
Filled(o) == o.filled_qty # 0 /\ o.filled_qty >= o.qty

\* float(o.filled_avg_price or o.limit_price or o.stop_price)
FillPrice(o) ==
    IF o.filled_avg_price # 0 THEN o.filled_avg_price
    ELSE IF o.limit_price # 0 THEN o.limit_price
    ELSE o.stop_price

\* late: the deadline has passed when the loop tests it; resp: the broker's
\* answer to get_order_by_id
WaitForFill(late, resp) ==
    /\ LoopFree
    /\ Serving
    /\ trade.pc = "wait"
    /\ LET o == option_orders[trade.entry_id]
       IN trade' =
            IF late THEN TradeReturn(trade, "FillTimeout")
            ELSE IF resp # "ok" THEN TradeReturn(trade, "Exception")
            ELSE IF Filled(o) THEN [trade EXCEPT !.pc = "take_profit", !.avg = FillPrice(o)]
            ELSE IF o.status \in Ended THEN TradeReturn(trade, "EntryEnded")
            ELSE trade
    /\ UNCHANGED <<OCO_BOOK, option_orders, stream, last, ntrades, nreplays, webhookVars, cryptoVars, forceVars, eodVars, flatten>>

(***************************************************************************)
(* place_oco_children(): the take-profit limit, the stop-loss stop, then   *)
(* the record.                                                             *)
(***************************************************************************)
\* round(entry_avg * (1 + tp_pct), 2)
tp_px(entry_avg, tp_pct) == RoundDiv(entry_avg * (100 + tp_pct), 100)

\* round(entry_avg * (1 - sl_pct), 2)
sl_px(entry_avg, sl_pct) == RoundDiv(entry_avg * (100 - sl_pct), 100)

\* resp: the broker's answer to the order
PlaceTakeProfit(resp) ==
    /\ LoopFree
    /\ Serving
    /\ trade.pc = "take_profit"
    /\ IF resp # "ok"
       THEN trade' = TradeReturn(trade, "Exception") /\ option_orders' = option_orders
       ELSE /\ option_orders' =
                 Append(option_orders,
                        Order("tp", trade.entry_id, trade.req.contracts, "limit",
                              tp_px(trade.avg, trade.req.tp_pct), 0))
            /\ trade' = [trade EXCEPT !.pc = "stop_loss", !.tp_id = Len(option_orders) + 1]
    /\ UNCHANGED <<OCO_BOOK, stream, last, ntrades, nreplays, webhookVars, cryptoVars, forceVars, eodVars, flatten>>

PlaceStopLoss(resp) ==
    /\ LoopFree
    /\ Serving
    /\ trade.pc = "stop_loss"
    /\ IF resp # "ok"
       THEN trade' = TradeReturn(trade, "Exception") /\ option_orders' = option_orders
       ELSE /\ option_orders' =
                 Append(option_orders,
                        Order("sl", trade.entry_id, trade.req.contracts, "stop", 0,
                              sl_px(trade.avg, trade.req.sl_pct)))
            /\ trade' = [trade EXCEPT !.pc = "record", !.sl_id = Len(option_orders) + 1]
    /\ UNCHANGED <<OCO_BOOK, stream, last, ntrades, nreplays, webhookVars, cryptoVars, forceVars, eodVars, flatten>>

\* OCO_BOOK[parent_id] = {"tp_id": tp.id, "sl_id": sl.id}
Record ==
    /\ LoopFree
    /\ Serving
    /\ trade.pc = "record"
    /\ OCO_BOOK' = [p \in DOMAIN OCO_BOOK \cup {trade.entry_id} |->
                      IF p = trade.entry_id
                      THEN [tp_id |-> trade.tp_id, sl_id |-> trade.sl_id]
                      ELSE OCO_BOOK[p]]
    /\ trade' = TradeReturn(trade, "ok")
    /\ UNCHANGED <<option_orders, stream, last, ntrades, nreplays, webhookVars, cryptoVars, forceVars, eodVars, flatten>>

TradeRespond ==
    /\ LoopFree
    /\ trade.pc = "done"
    /\ trade' = TradeIdle
    /\ UNCHANGED <<OCO_BOOK, option_orders, stream, last, ntrades, nreplays, webhookVars, cryptoVars, forceVars, eodVars, flatten>>

(***************************************************************************)
(* The broker works the option orders and publishes trade updates.         *)
(***************************************************************************)
Update(event, oid) == [event |-> event, oid |-> oid]

\* The stream has room for the update of one more execution.
Room == Len(stream) < MaxPending

\* One update per order of ids, lowest id first.
RECURSIVE Updates(_, _)
Updates(event, ids) ==
    IF ids = {} THEN <<>>
    ELSE LET i == CHOOSE x \in ids : \A y \in ids : x <= y
         IN <<Update(event, i)>> \o Updates(event, ids \ {i})

\* A part of an entry order executes.
BrokerPartialFill(i, px) ==
    /\ Serving
    /\ i \in DOMAIN option_orders
    /\ Room
    /\ option_orders[i].kind = "entry"
    /\ option_orders[i].status = "new"
    /\ option_orders[i].qty > 1
    /\ px \in Executions(option_orders[i])
    /\ option_orders' = [option_orders EXCEPT ![i] =
          [@ EXCEPT !.status = "partially_filled", !.filled_qty = 1,
                    !.filled_avg_price = px]]
    /\ stream' = Append(stream, Update("partial_fill", i))
    /\ UNCHANGED <<OCO_BOOK, trade, last, ntrades, nreplays, webhookVars, cryptoVars, forceVars, eodVars, flatten>>

BrokerFillOrder(i, px) ==
    /\ Serving
    /\ i \in DOMAIN option_orders
    /\ Room
    /\ Open(option_orders[i])
    /\ px \in Executions(option_orders[i])
    /\ option_orders' = [option_orders EXCEPT ![i] =
          [@ EXCEPT !.status = "filled", !.filled_qty = option_orders[i].qty,
                    !.filled_avg_price = px]]
    /\ stream' = Append(stream, Update("fill", i))
    /\ UNCHANGED <<OCO_BOOK, trade, last, ntrades, nreplays, webhookVars, cryptoVars, forceVars, eodVars, flatten>>

\* how: the order is canceled (by the account's owner), rejected or expires
BrokerEnd(i, how) ==
    /\ Serving
    /\ i \in DOMAIN option_orders
    /\ Room
    /\ Open(option_orders[i])
    /\ how = "rejected" => option_orders[i].status = "new"
    /\ option_orders' = [option_orders EXCEPT ![i] = [@ EXCEPT !.status = how]]
    /\ stream' = Append(stream, Update(how, i))
    /\ UNCHANGED <<OCO_BOOK, trade, last, ntrades, nreplays, webhookVars, cryptoVars, forceVars, eodVars, flatten>>

(***************************************************************************)
(* on_trade_update(u): cancel the sibling of a filled leg, drop the record *)
(* of a leg that is filled or dead.                                        *)
(***************************************************************************)
\* The (parent, leg) pairs of the book that name the order.
Matches(book, oid) == {m \in (DOMAIN book) \X Legs : book[m[1]][m[2]] = oid}

\* sib = kids["sl_id"] if leg == "tp_id" else kids["tp_id"]
Sibling(kids, leg) == IF leg = "tp_id" THEN kids.sl_id ELSE kids.tp_id

\* A cancel request on every event, not only on a fill.
CancelRequests_always(book, u) ==
    {m \in Matches(book, u.oid) : Sibling(book[m[1]], m[2]) # 0}

\* The matches for which the handler calls cancel_order_by_id(sib).
CancelRequests(book, u) ==
    IF u.event = "fill"
    THEN {m \in Matches(book, u.oid) : Sibling(book[m[1]], m[2]) # 0}
    ELSE {}

\* A handler that keeps the record of a filled leg.
Popped_keeping(book, u) ==
    IF u.event \in {"canceled", "rejected", "expired", "done_for_day"}
    THEN {m[1] : m \in Matches(book, u.oid)}
    ELSE {}

\* The parents the handler pops from the book.
Popped(book, u) ==
    IF u.event \in {"fill", "canceled", "rejected", "expired", "done_for_day"}
    THEN {m[1] : m \in Matches(book, u.oid)}
    ELSE {}

\* A handler that lets a failed cancel end the run.
on_trade_update_raising(book, u, failed) ==
    LET targets == {Sibling(book[m[1]], m[2]) : m \in CancelRequests(book, u)}
    IN [book |-> IF targets \cap failed # {} THEN book
                 ELSE [p \in DOMAIN book \ Popped(book, u) |-> book[p]],
        cancels |-> targets,
        ncancels |-> Cardinality(CancelRequests(book, u)),
        raised |-> targets \cap failed # {}]

\* failed: the cancel requests the broker refuses; each is caught where it
\* is made.
on_trade_update(book, u, failed) ==
    LET targets == {Sibling(book[m[1]], m[2]) : m \in CancelRequests(book, u)}
    IN [book |-> [p \in DOMAIN book \ Popped(book, u) |-> book[p]],
        cancels |-> targets,
        ncancels |-> Cardinality(CancelRequests(book, u)),
        raised |-> FALSE]

\* One run of the handler on update u.  net: the cancel request reaches the
\* broker; the broker cancels an order that is still open and refuses any
\* other.
Handle(u, net, replay) ==
    LET targets == on_trade_update(OCO_BOOK, u, {}).cancels
        failed == {i \in targets : ~(net /\ Open(option_orders[i]))}
        run == on_trade_update(OCO_BOOK, u, failed)
    IN /\ OCO_BOOK' = run.book
       /\ option_orders' = [i \in DOMAIN option_orders |->
             IF i \in targets \ failed
             THEN [option_orders[i] EXCEPT !.status = "canceled"]
             ELSE option_orders[i]]
       /\ stream' = (IF replay THEN stream ELSE Tail(stream))
                       \o Updates("canceled", targets \ failed)
       /\ last' = [seq |-> last.seq + 1, event |-> u.event, oid |-> u.oid,
                   before |-> OCO_BOOK, after |-> run.book,
                   cancels |-> targets, ncancels |-> run.ncancels,
                   failed |-> failed, raised |-> run.raised, replay |-> replay]

Deliver(net) ==
    /\ Serving
    /\ stream # <<>>
    /\ Handle(Head(stream), net, FALSE)
    /\ UNCHANGED <<trade, ntrades, nreplays, webhookVars, cryptoVars, forceVars, eodVars, flatten>>

\* The stream delivers the latest update once more.
Replay(net) ==
    /\ Serving
    /\ last.seq > 0
    /\ nreplays < MaxReplays
    /\ nreplays' = nreplays + 1
    /\ Handle(Update(last.event, last.oid), net, TRUE)
    /\ UNCHANGED <<trade, ntrades, webhookVars, cryptoVars, forceVars, eodVars, flatten>>

\* Every price an order can carry or execute at.
Prices ==
    Premiums \cup {120}
    \cup {tp_px(a, 35) : a \in Premiums \cup {120}}
    \cup {sl_px(a, 50) : a \in Premiums \cup {120}}

NextOptions ==
    \/ \E req \in TradeRequests, found \in BOOLEAN, resp \in Responses : Trade(req, found, resp)
    \/ \E late \in BOOLEAN, resp \in Responses : WaitForFill(late, resp)
    \/ \E resp \in Responses : PlaceTakeProfit(resp)
    \/ \E resp \in Responses : PlaceStopLoss(resp)
    \/ Record
    \/ TradeRespond
    \/ \E i \in 1 .. 3 * MaxTrades, px \in Prices : BrokerPartialFill(i, px)
    \/ \E i \in 1 .. 3 * MaxTrades, px \in Prices : BrokerFillOrder(i, px)
    \/ \E i \in 1 .. 3 * MaxTrades, how \in Ended : BrokerEnd(i, how)
    \/ \E net \in BOOLEAN : Deliver(net)
    \/ \E net \in BOOLEAN : Replay(net)

SpecOptions == InitOptions /\ [][NextOptions]_vars

(***************************************************************************)
(* flatten_all_options() behind /eod_flatten, and /force_close: cancel the *)
(* open orders, list the positions, close each with a market order.  One   *)
(* contract is traded, so the list holds at most one position.             *)
(***************************************************************************)
MaxFlattens == 2      \* runs of /eod_flatten and /force_close in one run

Callers == {"eod_flatten", "force_close"}

\* The broker's position in the contract: what the buys have bought less
\* what the sells have sold.
RECURSIVE Bought(_, _)
Bought(os, n) ==
    IF n = 0 THEN 0
    ELSE Bought(os, n - 1) + (IF os[n].kind \in {"entry", "close_buy"}
                              THEN os[n].filled_qty ELSE -os[n].filled_qty)

OptionPosition == Bought(option_orders, Len(option_orders))

OpenOrders == {i \in DOMAIN option_orders : Open(option_orders[i])}

\* What one call of trading.cancel_orders() may cancel (all or, when it
\* raises, nothing) and what the cancel_order_by_id() calls of
\* /force_close may (each may fail by itself).
Cancelable(caller) ==
    IF caller = "eod_flatten" THEN {OpenOrders, {}} ELSE SUBSET OpenOrders

\* The run begins: the open orders are canceled; every failure is
\* swallowed.
FlattenCancel(caller, canceled) ==
    /\ Serving
    /\ flatten.pc = "idle"
    /\ flatten.run < MaxFlattens
    /\ caller = "eod_flatten" => trade.pc \in {"idle", "wait"}
    /\ canceled \in Cancelable(caller)
    /\ option_orders' = [i \in DOMAIN option_orders |->
          IF i \in canceled THEN [option_orders[i] EXCEPT !.status = "canceled"]
          ELSE option_orders[i]]
    /\ stream' = stream \o Updates("canceled", canceled)
    /\ flatten' = [flatten EXCEPT !.pc = "list", !.caller = caller, !.run = @ + 1,
                                  !.qty = 0, !.failed = 0, !.result = ""]
    /\ UNCHANGED <<OCO_BOOK, trade, last, ntrades, nreplays, webhookVars, cryptoVars, forceVars, eodVars>>

\* resp: the broker's answer to get_all_positions()
FlattenList(resp) ==
    /\ Serving
    /\ flatten.pc = "list"
    /\ flatten' =
          IF resp # "ok" THEN [flatten EXCEPT !.pc = "done", !.result = "Exception"]
          ELSE IF OptionPosition = 0 THEN [flatten EXCEPT !.pc = "done", !.result = "ok"]
          ELSE [flatten EXCEPT !.pc = "close", !.qty = OptionPosition]
    /\ UNCHANGED <<OCO_BOOK, option_orders, stream, trade, last, ntrades, nreplays, webhookVars, cryptoVars, forceVars, eodVars>>

\* resp: the broker's answer to the market order that closes the position.
\* flatten_all_options() swallows a failure; /force_close answers 500.
FlattenClose(resp) ==
    /\ Serving
    /\ flatten.pc = "close"
    /\ LET kind == IF flatten.qty > 0 THEN "close_sell" ELSE "close_buy"
           id == Len(option_orders) + 1
       IN IF resp = "ok"
          THEN /\ option_orders' =
                    Append(option_orders, Order(kind, 0, Abs(flatten.qty), "market", 0, 0))
               /\ flatten' = [flatten EXCEPT
                                 !.pc = "done", !.result = "ok",
                                 !.closes = @ \cup {[run |-> flatten.run, id |-> id, kind |-> kind]}]
          ELSE /\ option_orders' = option_orders
               /\ flatten' = [flatten EXCEPT
                                 !.pc = "done", !.failed = @ + 1,
                                 !.result = IF flatten.caller = "force_close"
                                            THEN "Exception" ELSE "ok"]
    /\ UNCHANGED <<OCO_BOOK, stream, trade, last, ntrades, nreplays, webhookVars, cryptoVars, forceVars, eodVars>>

FlattenRespond ==
    /\ flatten.pc = "done"
    /\ flatten' = [flatten EXCEPT !.pc = "idle"]
    /\ UNCHANGED <<OCO_BOOK, option_orders, stream, trade, last, ntrades, nreplays, webhookVars, cryptoVars, forceVars, eodVars>>

\* One /trade for one contract at the market.
FlattenTrades ==
    [contracts : {1}, order_type : {"market"}, limit_price : {0}, tp_pct : {35}, sl_pct : {50}]

MaxOrders == 3 * MaxTrades + MaxFlattens

\* The broker answers a request of the run or refuses it.
FlattenResponses == {"ok", "http_error"}

\* /trade finds its contract and has its entry accepted; a day order left
\* open expires at the close.
NextFlatten ==
    \/ \E req \in FlattenTrades : Trade(req, TRUE, "ok")
    \/ WaitForFill(FALSE, "ok")
    \/ \E resp \in Responses : PlaceTakeProfit(resp)
    \/ \E resp \in Responses : PlaceStopLoss(resp)
    \/ Record
    \/ TradeRespond
    \/ \E i \in 1 .. MaxOrders, px \in Prices : BrokerFillOrder(i, px)
    \/ \E i \in 1 .. MaxOrders : BrokerEnd(i, "expired")
    \/ \E net \in BOOLEAN : Deliver(net)
    \/ \E caller \in Callers, canceled \in SUBSET (1 .. MaxOrders) : FlattenCancel(caller, canceled)
    \/ \E resp \in FlattenResponses : FlattenList(resp)
    \/ \E resp \in FlattenResponses : FlattenClose(resp)
    \/ FlattenRespond

SpecFlatten == InitOptions /\ [][NextFlatten]_vars

\* Every handler that has begun goes on, the stream delivers what the
\* broker has published, and an order left open expires at the close.
FairFlatten ==
    /\ WF_vars(Record)
    /\ WF_vars(TradeRespond)
    /\ WF_vars(FlattenRespond)
    /\ WF_vars(\E resp \in FlattenResponses : FlattenList(resp))
    /\ WF_vars(\E resp \in FlattenResponses : FlattenClose(resp))
    /\ WF_vars(\E net \in BOOLEAN : Deliver(net))
    /\ WF_vars(\E i \in 1 .. MaxOrders : BrokerEnd(i, "expired"))

SpecFlattenLive == SpecFlatten /\ FairFlatten

(***************************************************************************)
(* Properties of the bracket tracker.                                      *)
(***************************************************************************)
\* The latest run of on_trade_update: its update, and the records of the
\* book that named the update's order when the run began.
LastUpdate == Update(last.event, last.oid)
LastMatches == Matches(last.before, last.oid)

\* C7: a fill of one leg of a recorded bracket makes exactly one cancel
\* request, for the other leg, and removes the record; a fill of an order no
\* record names (the other leg, later) makes no request and leaves OCO_BOOK
\* as it was.
C7_FillCancelsSiblingOnce ==
    last.event = "fill" =>
        /\ \A m \in LastMatches :
              /\ last.cancels = {Sibling(last.before[m[1]], m[2])}
              /\ last.ncancels = 1
              /\ m[1] \notin DOMAIN last.after
        /\ LastMatches = {} => last.ncancels = 0 /\ last.after = last.before

\* Both legs of a recorded bracket filled; the record is gone, and the
\* latest fill update found no record.
C7_Witness ==
    /\ last.event = "fill"
    /\ ~last.replay
    /\ LastMatches = {}
    /\ last.ncancels = 0
    /\ OCO_BOOK = EmptyBook
    /\ trade.pc = "idle"
    /\ last.oid \in DOMAIN option_orders
    /\ option_orders[last.oid].kind \in {"tp", "sl"}
    /\ \E i \in DOMAIN option_orders :
          /\ i # last.oid
          /\ option_orders[i].kind \in {"tp", "sl"}
          /\ option_orders[i].parent = option_orders[last.oid].parent
          /\ option_orders[i].status = "filled"

\* C8: an update that a leg was canceled, rejected or expired removes the
\* record and makes no cancel request.
C8_EndedLegDropsRecord ==
    last.event \in Ended =>
        /\ last.ncancels = 0
        /\ last.cancels = {}
        /\ \A m \in LastMatches : m[1] \notin DOMAIN last.after

C8_Witness ==
    /\ last.event \in Ended
    /\ \E m \in LastMatches :
          /\ m[1] \notin DOMAIN OCO_BOOK
          /\ Open(option_orders[Sibling(last.before[m[1]], m[2])])

\* C9: an update whose order no record names changes nothing and sends no
\* request; a second delivery of an update leaves OCO_BOOK as the first left
\* it; a cancel the broker refuses does not leave the handler as an
\* exception and the record is removed all the same.
C9_TolerantIdempotent ==
    last.seq > 0 =>
        /\ LastMatches = {} => last.after = last.before /\ last.ncancels = 0
        /\ on_trade_update(last.after, LastUpdate, {}).book = last.after
        /\ on_trade_update(last.after, LastUpdate, last.cancels).book = last.after
        /\ ~last.raised
        /\ last.failed # {} => \A m \in LastMatches : m[1] \notin DOMAIN last.after

C9_Witness ==
    /\ last.failed # {}
    /\ LastMatches # {}
    /\ \A m \in LastMatches : m[1] \notin DOMAIN OCO_BOOK
    /\ ~last.raised

\* The bracket children of entry order p.
Children(p) ==
    {i \in DOMAIN option_orders :
        option_orders[i].kind \in {"tp", "sl"} /\ option_orders[i].parent = p}

\* C10: a bracket child exists only for an entry order that is fully
\* filled, has the filled quantity and is priced from the filled average
\* price; a /trade whose entry ended canceled, rejected or expired, or timed
\* out, has submitted no child and recorded nothing.
C10_ChildrenAfterFill ==
    /\ \A i \in DOMAIN option_orders :
          option_orders[i].kind \in {"tp", "sl"} =>
              LET c == option_orders[i]
                  e == option_orders[c.parent]
              IN /\ e.status = "filled"
                 /\ e.filled_qty = e.qty
                 /\ c.qty = e.filled_qty
                 /\ c.kind = "tp" =>
                       c.type = "limit" /\ c.limit_price = tp_px(e.filled_avg_price, 35)
                 /\ c.kind = "sl" =>
                       c.type = "stop" /\ c.stop_price = sl_px(e.filled_avg_price, 50)
    /\ (trade.pc = "done" /\ trade.result \in {"EntryEnded", "FillTimeout"}) =>
          /\ Children(trade.entry_id) = {}
          /\ trade.entry_id \notin DOMAIN OCO_BOOK

\* /trade has answered for a two-contract entry that was filled: both
\* children are placed for two contracts and the record is in the book.
C10_Witness ==
    /\ trade.pc = "done"
    /\ trade.result = "ok"
    /\ trade.req.contracts = 2
    /\ option_orders[trade.entry_id].filled_qty = 2
    /\ Cardinality(Children(trade.entry_id)) = 2
    /\ \A i \in Children(trade.entry_id) : option_orders[i].qty = 2
    /\ trade.entry_id \in DOMAIN OCO_BOOK
(***************************************************************************)
(* Properties of /trade and its bracket.                                   *)
(***************************************************************************)
\* C33: once /trade has answered with an error, the entry order it
\* submitted is not working at the broker any more (it cannot fill later
\* and stay without children).
C33_NoEntryLeftWorking ==
    (trade.pc = "done" /\ trade.result # "ok" /\ trade.entry_id # 0)
        => ~Open(option_orders[trade.entry_id])

\* The other child of the parent of child i.
Siblings(i) ==
    {j \in DOMAIN option_orders \ {i} :
        /\ option_orders[j].kind \in {"tp", "sl"}
        /\ option_orders[j].parent = option_orders[i].parent}

\* C34: the handler's run on the fill of a child has asked the broker to
\* cancel the child's sibling, also when the update came before the record
\* was written.
C34_FillAlwaysCancelsSibling ==
    (last.seq > 0 /\ last.event = "fill" /\ option_orders[last.oid].kind \in {"tp", "sl"})
        => Siblings(last.oid) \subseteq last.cancels

\* C35: when place_oco_children has returned or raised, every child it
\* submitted that is open at the broker is named by a record of OCO_BOOK.
C35_OpenChildrenTracked ==
    (trade.pc = "done" /\ trade.tp_id # 0)
        => \A i \in {trade.tp_id, trade.sl_id} \ {0} :
              Open(option_orders[i]) => Matches(OCO_BOOK, i) # {}

(***************************************************************************)
(* app_crypto.py: /tv.  A string is the tuple of its characters.           *)
(***************************************************************************)
MaxSignals == 3       \* /tv requests received in one run

\* n times the character c
Chars(n, c) == [i \in 1 .. n |-> c]

Long == <<"L", "o", "n", "g">>
Short == <<"S", "h", "o", "r", "t">>
TpSl == <<"T", "P", "/", "S", "L">>
SpacedTag == <<"T", "P", " ", "1">>

\* Order tags an alert may carry: the strategy's own, none, one with a
\* space, and tags of 56 and 64 characters.
OrderTags == {Long, Short, TpSl, <<>>, SpacedTag, Chars(56, "x"), Chars(64, "x")}

\* uuid.uuid4().hex[:8]: eight hexadecimal digits.
Suffixes == { Chars(7, "0") \o <<"1">>, Chars(7, "0") \o <<"2">> }

\* s.replace(" ", "_")
Underscored(str) == [i \in 1 .. Len(str) |-> IF str[i] = " " THEN "_" ELSE str[i]]

\* str(order_id or "tv").replace(" ", "_")
base_id(order_id) == Underscored(IF order_id = <<>> THEN <<"t", "v">> ELSE order_id)

\* f"{base_id}-{uuid.uuid4().hex[:8]}"[:64]
client_order_id(order_id, suffix) ==
    LET full == base_id(order_id) \o <<"-">> \o suffix
    IN SubSeq(full, 1, Min(64, Len(full)))

\* The alerts /tv is sent: well-formed orders and cancels for every tag,
\* and one alert for each way of being malformed.
TvOrders ==
    [ticker : {"SYMBOL"}, action : {"buy"}, order_id : OrderTags,
     contracts : {1}, price : {Num(250000)}]
    \cup {[ticker |-> "SYMBOL", action |-> "sell", order_id |-> Short, contracts |-> 1,
           price |-> Num(250000)]}

TvSignals ==
    TvOrders
    \cup [ticker : {"SYMBOL"}, action : {"cancel"}, order_id : {Long, TpSl},
          contracts : {0}, price : {NoPrice}]
    \cup { [ticker |-> "OTHER", action |-> "buy", order_id |-> Long, contracts |-> 1,
            price |-> Num(250000)],
           [ticker |-> "SYMBOL", action |-> "hold", order_id |-> Long, contracts |-> 1,
            price |-> Num(250000)],
           [ticker |-> "SYMBOL", action |-> "buy", order_id |-> Long, contracts |-> 0,
            price |-> Num(250000)],
           [ticker |-> "SYMBOL", action |-> "buy", order_id |-> Long, contracts |-> 1,
            price |-> Num(0)],
           [ticker |-> "SYMBOL", action |-> "buy", order_id |-> Long, contracts |-> 1,
            price |-> BadPrice],
           [ticker |-> "SYMBOL", action |-> "buy", order_id |-> Long, contracts |-> 1,
            price |-> NoPrice] }

\* Answers of the exchange: "refused" is a 200 whose body reports failure
\* and carries no order id.
TvResponses == Responses \cup {"refused"}

InitCrypto ==
    /\ WebhookAtRest
    /\ OptionsAtRest
    /\ DRY_RUN \in BOOLEAN
    /\ active_orders = NoTracked
    /\ exchange = <<>>
    /\ tv = TvIdle
    /\ tv_sent = <<>>
    /\ ntv = 0
    /\ ForceAtRest
    /\ EodAtRest

\* The exchange's order with the client order id (0: none): a request
\* that repeats a client order id is answered with the order it names.
Known(key) ==
    IF \E i \in DOMAIN exchange : exchange[i].client_order_id = key
    THEN CHOOSE i \in DOMAIN exchange : exchange[i].client_order_id = key
    ELSE 0

TvReturn(d, key, sent, result) ==
    [seq |-> ntv + 1, action |-> d.action, order_id |-> d.order_id,
     client_order_id |-> key, sent |-> sent, result |-> result]

\* A cancel branch that forgets the order before it asks the exchange.
TvCancel_forgetful(d, resp) ==
    IF d.order_id \notin DOMAIN active_orders
    THEN /\ tv' = TvReturn(d, <<>>, 0, "order_not_found")
         /\ UNCHANGED <<active_orders, exchange>>
    ELSE IF DRY_RUN
    THEN /\ tv' = TvReturn(d, <<>>, 0, "dry_run")
         /\ UNCHANGED <<active_orders, exchange>>
    ELSE IF resp \in {"http_error", "network_error"}
    THEN /\ tv' = TvReturn(d, <<>>, 1, "cancel_failed")
         /\ active_orders' = [t \in DOMAIN active_orders \ {d.order_id} |-> active_orders[t]]
         /\ UNCHANGED exchange
    ELSE /\ tv' = TvReturn(d, <<>>, 1, "ok")
         /\ active_orders' = [t \in DOMAIN active_orders \ {d.order_id} |-> active_orders[t]]
         /\ exchange' = [exchange EXCEPT ![active_orders[d.order_id].coinbase_order_id] =
                            [@ EXCEPT !.status = IF resp = "ok" THEN "canceled" ELSE @,
                                      !.cancel_requested = TRUE]]

\* The cancel branch.  resp: the exchange's answer to batch_cancel
TvCancel(d, resp) ==
    IF d.order_id \notin DOMAIN active_orders
    THEN /\ tv' = TvReturn(d, <<>>, 0, "order_not_found")
         /\ UNCHANGED <<active_orders, exchange>>
    ELSE IF DRY_RUN
    THEN /\ tv' = TvReturn(d, <<>>, 0, "dry_run")
         /\ UNCHANGED <<active_orders, exchange>>
    ELSE IF resp \in {"http_error", "network_error"}
    THEN /\ tv' = TvReturn(d, <<>>, 1, "cancel_failed")
         /\ UNCHANGED <<active_orders, exchange>>
    ELSE /\ tv' = TvReturn(d, <<>>, 1, "ok")
         /\ active_orders' = [t \in DOMAIN active_orders \ {d.order_id} |-> active_orders[t]]
         /\ exchange' = [exchange EXCEPT ![active_orders[d.order_id].coinbase_order_id] =
                            [@ EXCEPT !.status = IF resp = "ok" THEN "canceled" ELSE @,
                                      !.cancel_requested = TRUE]]

\* A handler that sends the order whatever DRY_RUN says.
TvRequest_live(d, suffix, resp) ==
    /\ ntv < MaxSignals
    /\ ntv' = ntv + 1
    /\ LET key == client_order_id(d.order_id, suffix)
       IN IF d.ticker # "SYMBOL"
          THEN /\ tv' = TvReturn(d, <<>>, 0, "bad_symbol")
               /\ UNCHANGED <<active_orders, exchange, tv_sent>>
          ELSE IF d.action \notin {"buy", "sell", "cancel"}
          THEN /\ tv' = TvReturn(d, <<>>, 0, "bad_side_value")
               /\ UNCHANGED <<active_orders, exchange, tv_sent>>
          ELSE IF d.action = "cancel"
          THEN TvCancel(d, resp) /\ UNCHANGED tv_sent
          ELSE IF d.contracts <= 0
          THEN /\ tv' = TvReturn(d, <<>>, 0, "contracts_must_be_positive_int")
               /\ UNCHANGED <<active_orders, exchange, tv_sent>>
          ELSE IF ~Parses(d.price) \/ d.price.v <= 0
          THEN /\ tv' = TvReturn(d, <<>>, 0, "valid_price_required")
               /\ UNCHANGED <<active_orders, exchange, tv_sent>>
          ELSE /\ tv_sent' = Append(tv_sent, [order_id |-> d.order_id, suffix |-> suffix,
                                              client_order_id |-> key])
               /\ IF resp \in {"http_error", "network_error"}
                  THEN /\ tv' = TvReturn(d, key, 1, "jwt_limit_order_error")
                       /\ UNCHANGED <<active_orders, exchange>>
                  ELSE IF resp = "refused"
                  THEN /\ tv' = TvReturn(d, key, 1, "ok")
                       /\ UNCHANGED <<active_orders, exchange>>
                  ELSE LET id == IF Known(key) # 0 THEN Known(key) ELSE Len(exchange) + 1
                       IN /\ exchange' =
                               IF Known(key) # 0 THEN exchange
                               ELSE Append(exchange,
                                           [client_order_id |-> key, side |-> d.action,
                                            contracts |-> d.contracts, price |-> d.price.v,
                                            status |-> "open", cancel_requested |-> FALSE])
                          /\ active_orders' =
                               IF d.order_id \in {Long, Short}
                               THEN [t \in DOMAIN active_orders \cup {d.order_id} |->
                                       IF t = d.order_id
                                       THEN [coinbase_order_id |-> id, client_order_id |-> key]
                                       ELSE active_orders[t]]
                               ELSE active_orders
                          /\ tv' = TvReturn(d, key, 1, "ok")
    /\ UNCHANGED <<DRY_RUN, webhookVars, optionVars, forceVars, eodVars>>

\* One /tv request.  suffix: what uuid4 gives; resp: the exchange's answer
TvRequest(d, suffix, resp) ==
    /\ ntv < MaxSignals
    /\ ntv' = ntv + 1
    /\ LET key == client_order_id(d.order_id, suffix)
       IN IF d.ticker # "SYMBOL"
          THEN /\ tv' = TvReturn(d, <<>>, 0, "bad_symbol")
               /\ UNCHANGED <<active_orders, exchange, tv_sent>>
          ELSE IF d.action \notin {"buy", "sell", "cancel"}
          THEN /\ tv' = TvReturn(d, <<>>, 0, "bad_side_value")
               /\ UNCHANGED <<active_orders, exchange, tv_sent>>
          ELSE IF d.action = "cancel"
          THEN TvCancel(d, resp) /\ UNCHANGED tv_sent
          ELSE IF d.contracts <= 0
          THEN /\ tv' = TvReturn(d, <<>>, 0, "contracts_must_be_positive_int")
               /\ UNCHANGED <<active_orders, exchange, tv_sent>>
          ELSE IF ~Parses(d.price) \/ d.price.v <= 0
          THEN /\ tv' = TvReturn(d, <<>>, 0, "valid_price_required")
               /\ UNCHANGED <<active_orders, exchange, tv_sent>>
          ELSE IF DRY_RUN
          THEN /\ tv' = TvReturn(d, key, 0, "dry_run")
               /\ UNCHANGED <<active_orders, exchange, tv_sent>>
          ELSE /\ tv_sent' = Append(tv_sent, [order_id |-> d.order_id, suffix |-> suffix,
                                              client_order_id |-> key])
               /\ IF resp \in {"http_error", "network_error"}
                  THEN /\ tv' = TvReturn(d, key, 1, "jwt_limit_order_error")
                       /\ UNCHANGED <<active_orders, exchange>>
                  ELSE IF resp = "refused"
                  THEN /\ tv' = TvReturn(d, key, 1, "ok")
                       /\ UNCHANGED <<active_orders, exchange>>
                  ELSE LET id == IF Known(key) # 0 THEN Known(key) ELSE Len(exchange) + 1
                       IN /\ exchange' =
                               IF Known(key) # 0 THEN exchange
                               ELSE Append(exchange,
                                           [client_order_id |-> key, side |-> d.action,
                                            contracts |-> d.contracts, price |-> d.price.v,
                                            status |-> "open", cancel_requested |-> FALSE])
                          /\ active_orders' =
                               IF d.order_id \in {Long, Short}
                               THEN [t \in DOMAIN active_orders \cup {d.order_id} |->
                                       IF t = d.order_id
                                       THEN [coinbase_order_id |-> id, client_order_id |-> key]
                                       ELSE active_orders[t]]
                               ELSE active_orders
                          /\ tv' = TvReturn(d, key, 1, "ok")
    /\ UNCHANGED <<DRY_RUN, webhookVars, optionVars, forceVars, eodVars>>

NextCrypto == \E d \in TvSignals, suffix \in Suffixes, resp \in TvResponses : TvRequest(d, suffix, resp)

SpecCrypto == InitCrypto /\ [][NextCrypto]_vars

\* The client order ids of the i-th and j-th order request differ.
Distinct(i, j) == tv_sent[i].client_order_id # tv_sent[j].client_order_id

\* C25: two order requests of /tv whose random suffixes differ carry
\* different client order ids, whatever their tags; so the exchange takes
\* each for an order of its own.
C25_KeysNeverRepeat ==
    \A i, j \in DOMAIN tv_sent :
        (i < j /\ tv_sent[i].suffix # tv_sent[j].suffix) => Distinct(i, j)

\* The exchange's orders that were sent with the tag.
Tagged(tag) ==
    {k \in DOMAIN exchange :
        \E i \in DOMAIN tv_sent : /\ tv_sent[i].order_id = tag
                                   /\ tv_sent[i].client_order_id = exchange[k].client_order_id}

\* The exchange's orders that active_orders names.
Tracked == {active_orders[t].coinbase_order_id : t \in DOMAIN active_orders}

\* C31: a cancel signal for a tag that is not tracked is answered
\* order_not_found, sends nothing and changes nothing; for a tracked tag
\* the record is removed exactly when the cancel call to the exchange
\* returned, and a failed cancel leaves active_orders as it was.
C31_CancelRemovesOnSuccess ==
    [][(ntv' = ntv + 1 /\ tv'.action = "cancel" /\ tv'.result # "bad_symbol")
          => IF tv'.order_id \notin DOMAIN active_orders
             THEN /\ tv'.result = "order_not_found"
                  /\ tv'.sent = 0
                  /\ active_orders' = active_orders
                  /\ exchange' = exchange
             ELSE /\ (tv'.order_id \notin DOMAIN active_orders') <=> (tv'.sent = 1 /\ tv'.result = "ok")
                  /\ \A t \in DOMAIN active_orders \ {tv'.order_id} :
                        t \in DOMAIN active_orders' /\ active_orders'[t] = active_orders[t]
                  /\ tv'.result # "ok" => active_orders' = active_orders]_vars

C31_Witness ==
    /\ tv.action = "cancel"
    /\ tv.order_id = Long
    /\ tv.result = "ok"
    /\ Long \notin DOMAIN active_orders
    /\ \E k \in Tagged(Long) : exchange[k].status = "canceled"

\* C36: active_orders has no key but Long and Short, and every order sent
\* with one of these tags that the exchange holds open, and that no cancel
\* request has named, is named by active_orders.
C36_OpenEntriesTracked ==
    /\ DOMAIN active_orders \subseteq {Long, Short}
    /\ \A k \in Tagged(Long) \cup Tagged(Short) :
          (exchange[k].status = "open" /\ ~exchange[k].cancel_requested) => k \in Tracked

\* C40: with DRY_RUN set /tv has sent nothing to the exchange, the exchange
\* holds no order, and active_orders is empty, whatever the signals were.
C40_DryRunSendsNothing ==
    DRY_RUN => /\ tv.sent = 0
               /\ tv_sent = <<>>
               /\ exchange = <<>>
               /\ active_orders = NoTracked
               /\ tv.result \notin {"ok", "jwt_limit_order_error", "cancel_failed"}

C40_Witness ==
    /\ DRY_RUN
    /\ ntv = MaxSignals
    /\ tv.action = "buy"
    /\ tv.result = "dry_run"
    /\ tv.client_order_id # <<>>

(***************************************************************************)
(* app_options.py: /force_close.  Symbols are tuples of characters; an     *)
(* option's symbol is its root, expiry, right and strike (OCC).            *)
(***************************************************************************)
MaxForce == 2         \* /force_close requests received in one run

Occ(root) == root \o <<"2", "6", "0", "1", "1", "6", "C", "0", "0", "4", "5", "0", "0", "0", "0">>

SPY == <<"S", "P", "Y">>
SPYG == <<"S", "P", "Y", "G">>
QQQ == <<"Q", "Q", "Q">>

\* str.upper() on the letters in use
UpperChars(str) ==
    [i \in 1 .. Len(str) |->
        CASE str[i] = "s" -> "S" [] str[i] = "p" -> "P" [] str[i] = "y" -> "Y"
          [] str[i] = "g" -> "G" [] str[i] = "q" -> "Q" [] OTHER -> str[i]]

\* sub in str
Contains(sub, str) ==
    \E i \in 1 .. Len(str) - Len(sub) + 1 : SubSeq(str, i, i + Len(sub) - 1) = sub

\* What trading.get_all_positions() lists, in the broker's order: the
\* positions held, none of quantity 0.
Position(symbol, asset_class, qty) == [symbol |-> symbol, asset_class |-> asset_class, qty |-> qty]

Listings ==
    { <<Position(Occ(SPY), "us_option", 2), Position(Occ(SPYG), "us_option", 1)>>,
      <<Position(Occ(SPY), "us_option", -1), Position(Occ(QQQ), "us_option", 1)>>,
      <<Position(Occ(SPYG), "us_option", 1), Position(SPY, "us_equity", 5)>>,
      <<Position(Occ(QQQ), "us_option", 3)>>,
      <<>> }

\* Orders open at the broker before the first request.
WorkingOrders ==
    { {},
      {[run |-> 0, symbol |-> Occ(SPYG), qty |-> 1, side |-> "sell"]},
      {[run |-> 0, symbol |-> SPY, qty |-> 5, side |-> "sell"]} }

ForcePayloads ==
    [symbol : {<<>>, Occ(SPY)}, underlying : {<<>>, SPY, <<"s", "p", "y">>, QQQ}]

InitForceClose ==
    /\ WebhookAtRest
    /\ OptionsAtRest
    /\ CryptoAtRest
    /\ broker_positions \in Listings
    /\ broker_orders \in WorkingOrders
    /\ force = ForceIdle
    /\ nforce = 0
    /\ EodAtRest

\* (symbol and o.symbol == symbol) or (underlying and underlying.upper() in o.symbol)
OrderMatches(payload, symbol) ==
    \/ payload.symbol # <<>> /\ symbol = payload.symbol
    \/ payload.underlying # <<>> /\ Contains(UpperChars(payload.underlying), symbol)

\* The three `continue` tests of the loop over the positions.
PositionMatches(payload, p) ==
    /\ p.asset_class = "us_option"
    /\ ~(payload.symbol # <<>> /\ p.symbol # payload.symbol)
    /\ ~(payload.underlying # <<>> /\ ~Contains(UpperChars(payload.underlying), p.symbol))

\* The closing order for position p.
ForceOrder(run, p) ==
    [run |-> run, symbol |-> p.symbol, qty |-> Abs(p.qty),
     side |-> IF p.qty > 0 THEN "sell" ELSE "buy"]

\* The positions of the listing the loop submits an order for, in order.
RECURSIVE Matching(_, _)
Matching(payload, listing) ==
    IF listing = <<>> THEN <<>>
    ELSE (IF PositionMatches(payload, Head(listing)) THEN <<Head(listing)>> ELSE <<>>)
         \o Matching(payload, Tail(listing))

\* One /force_close request.  orders_resp: the answer to get_orders;
\* cancels_ok: whether cancel_order_by_id succeeds; pos_resp: the answer to
\* get_all_positions; fail_at: the submit_order call that raises (0: none).
ForceClose(payload, orders_resp, cancels_ok, pos_resp, fail_at) ==
    /\ nforce < MaxForce
    /\ nforce' = nforce + 1
    /\ LET canceled == IF orders_resp = "ok" /\ cancels_ok
                       THEN {o \in broker_orders : OrderMatches(payload, o.symbol)}
                       ELSE {}
           matching == Matching(payload, broker_positions)
           raised == pos_resp # "ok" \/ fail_at \in 1 .. Len(matching)
           n == IF pos_resp # "ok" THEN 0
                ELSE IF fail_at \in 1 .. Len(matching) THEN fail_at - 1
                ELSE Len(matching)
           submitted == {ForceOrder(nforce + 1, matching[i]) : i \in 1 .. n}
       IN /\ fail_at <= Len(matching)
          /\ broker_orders' = (broker_orders \ canceled) \cup submitted
          /\ force' = [seq |-> nforce + 1, payload |-> payload, positions |-> broker_positions,
                       listing |-> pos_resp, canceled |-> canceled, submitted |-> submitted,
                       result |-> IF raised THEN "Exception" ELSE "ok"]
    /\ UNCHANGED <<broker_positions, webhookVars, optionVars, cryptoVars, eodVars>>

\* The listing after the order has filled.
RECURSIVE Filled_(_, _)
Filled_(listing, o) ==
    IF listing = <<>> THEN <<>>
    ELSE LET p == Head(listing)
             q == IF p.symbol = o.symbol
                  THEN p.qty + (IF o.side = "sell" THEN -o.qty ELSE o.qty)
                  ELSE p.qty
         IN (IF q = 0 THEN <<>> ELSE <<[p EXCEPT !.qty = q]>>) \o Filled_(Tail(listing), o)

\* The broker fills an open market order of a /force_close run.
BrokerFillClose(o) ==
    /\ o \in broker_orders
    /\ o.run > 0
    /\ \E i \in DOMAIN broker_positions : broker_positions[i].symbol = o.symbol
    /\ broker_orders' = broker_orders \ {o}
    /\ broker_positions' = Filled_(broker_positions, o)
    /\ UNCHANGED <<force, nforce, webhookVars, optionVars, cryptoVars, eodVars>>

ForceResponses == {"ok", "http_error"}

NextForceClose ==
    \/ \E payload \in ForcePayloads, orders_resp \in ForceResponses, cancels_ok \in BOOLEAN,
          pos_resp \in ForceResponses, fail_at \in 0 .. 2 :
          ForceClose(payload, orders_resp, cancels_ok, pos_resp, fail_at)
    \/ \E o \in broker_orders : BrokerFillClose(o)

SpecForceClose == InitForceClose /\ [][NextForceClose]_vars

\* The root of an option symbol: the characters before its expiry.
Root(symbol) == SubSeq(symbol, 1, Len(symbol) - 15)

\* The payload selects the position: the option with exactly the symbol
\* given, or an option on the underlying given.
Selected(payload, p) ==
    /\ p.asset_class = "us_option"
    /\ \/ payload.symbol # <<>> /\ p.symbol = payload.symbol
       \/ payload.underlying # <<>> /\ Root(p.symbol) = UpperChars(payload.underlying)

\* The order's symbol is of the payload's target: a selected option, or the
\* underlying itself.
Targeted(payload, symbol) ==
    \/ payload.underlying # <<>> /\ symbol = UpperChars(payload.underlying)
    \/ Len(symbol) > 15 /\ Selected(payload, Position(symbol, "us_option", 1))

\* C32: a /force_close run submits closing orders only for the option
\* positions its payload selects, each of the position's absolute quantity
\* and of the side opposite to its sign; it cancels only open orders of
\* those options or of the underlying named; and with no selected position it submits nothing and,
\* the broker having listed the positions, answers ok.
C32_ForceCloseIsTargeted ==
    force.seq > 0 =>
        LET listed == {force.positions[i] : i \in DOMAIN force.positions}
            chosen == {p \in listed : Selected(force.payload, p)}
        IN /\ \A o \in force.submitted :
                 \E p \in chosen : o = ForceOrder(force.seq, p)
           /\ \A o \in force.canceled : Targeted(force.payload, o.symbol)
           /\ chosen = {} => force.submitted = {}
           /\ (chosen = {} /\ force.listing = "ok") => force.result = "ok"

(***************************************************************************)
(* app_options.py: eod_loop(), the scheduler of flatten_all_options.       *)
(***************************************************************************)
MaxDate == 3          \* calendar dates of one run
MaxRuns == 4          \* calls of flatten_all_options in one run

\* The minutes of the day at which the loop may wake.
Wakes == <<0, 569, 570, 779, 780, 781, 1439>>

\* a >= b for strings (lexicographic, by character code)
RECURSIVE StrGeq(_, _)
StrGeq(a, b) ==
    IF b = <<>> THEN TRUE
    ELSE IF a = <<>> THEN FALSE
    ELSE IF Head(a) # Head(b) THEN Head(a) > Head(b)
    ELSE StrGeq(Tail(a), Tail(b))

InitEod ==
    /\ WebhookAtRest
    /\ OptionsAtRest
    /\ CryptoAtRest
    /\ ForceAtRest
    /\ eod_config \in [EOD_ON : BOOLEAN, EOD_HHMM : {HHMM(780), HHMM(570)}]
    /\ eod_now = [date |-> 1, minute |-> 0]
    /\ eod_last_run_date = 0
    /\ eod_runs = <<>>
    /\ eod_poll = NoPoll

\* Time passes between two passes of the loop.
EodTick ==
    /\ \E i \in DOMAIN Wakes :
          /\ Wakes[i] = eod_now.minute
          /\ IF i < Len(Wakes)
             THEN eod_now' = [eod_now EXCEPT !.minute = Wakes[i + 1]]
             ELSE /\ eod_now.date < MaxDate
                  /\ eod_now' = [date |-> eod_now.date + 1, minute |-> Wakes[1]]
    /\ UNCHANGED <<eod_config, eod_last_run_date, eod_runs, eod_poll>>
    /\ UNCHANGED <<webhookVars, optionVars, cryptoVars, forceVars>>

\* now.strftime("%H:%M") >= EOD_HHMM and _eod_last_run_date != now.date().isoformat()
EodDue == StrGeq(HHMM(eod_now.minute), eod_config.EOD_HHMM) /\ eod_last_run_date # eod_now.date

\* A pass that records the date before it calls flatten_all_options.
EodPoll_marking_first(resp) ==
    /\ eod_config.EOD_ON
    /\ EodDue => Len(eod_runs) < MaxRuns
    /\ eod_poll' = [seq |-> (eod_poll.seq % 2) + 1, ran |-> EodDue, raised |-> EodDue /\ resp # "ok"]
    /\ eod_runs' = IF EodDue
                   THEN Append(eod_runs, [date |-> eod_now.date, minute |-> eod_now.minute,
                                          raised |-> resp # "ok"])
                   ELSE eod_runs
    /\ eod_last_run_date' = IF EodDue THEN eod_now.date ELSE eod_last_run_date
    /\ UNCHANGED <<eod_config, eod_now>>
    /\ UNCHANGED <<webhookVars, optionVars, cryptoVars, forceVars>>

\* One pass of the loop.  resp: "ok" when flatten_all_options returns,
\* anything else when it raises (the exception is swallowed by the loop).
EodPoll(resp) ==
    /\ eod_config.EOD_ON
    /\ EodDue => Len(eod_runs) < MaxRuns
    /\ eod_poll' = [seq |-> (eod_poll.seq % 2) + 1, ran |-> EodDue, raised |-> EodDue /\ resp # "ok"]
    /\ eod_runs' = IF EodDue
                   THEN Append(eod_runs, [date |-> eod_now.date, minute |-> eod_now.minute,
                                          raised |-> resp # "ok"])
                   ELSE eod_runs
    /\ eod_last_run_date' = IF EodDue /\ resp = "ok" THEN eod_now.date ELSE eod_last_run_date
    /\ UNCHANGED <<eod_config, eod_now>>
    /\ UNCHANGED <<webhookVars, optionVars, cryptoVars, forceVars>>

NextEod ==
    \/ EodTick
    \/ \E resp \in {"ok", "http_error"} : EodPoll(resp)

SpecEod == InitEod /\ [][NextEod]_vars

\* The configured time as a minute of the day.
EodMinute ==
    LET str == eod_config.EOD_HHMM
    IN ((str[1] - 48) * 10 + (str[2] - 48)) * 60 + (str[4] - 48) * 10 + (str[5] - 48)

\* The dates on which a call of flatten_all_options has completed.
Completed(runs) == {runs[i].date : i \in {j \in DOMAIN runs : ~runs[j].raised}}

\* C37: the loop calls flatten_all_options only at or after EOD_HHMM; on a
\* date no call follows one that completed; the date recorded is that of
\* the latest completed call; and a pass at or after EOD_HHMM on a date
\* with no completed call (none yet, or one that raised) makes the call.
C37_OncePerDateAfterEod ==
    /\ [](\A i \in DOMAIN eod_runs : eod_runs[i].minute >= EodMinute)
    /\ [](\A i, j \in DOMAIN eod_runs :
            (i < j /\ eod_runs[i].date = eod_runs[j].date) => eod_runs[i].raised)
    /\ [](eod_last_run_date # 0
            => /\ eod_last_run_date \in Completed(eod_runs)
               /\ \A d \in Completed(eod_runs) : d <= eod_last_run_date)
    /\ [][eod_poll' # eod_poll
            => (eod_poll'.ran <=> /\ eod_now.minute >= EodMinute
                                  /\ eod_now.date \notin Completed(eod_runs))]_vars

C37_Witness ==
    /\ Len(eod_runs) >= 3
    /\ eod_runs[1].raised
    /\ ~eod_runs[2].raised
    /\ eod_runs[2].date = eod_runs[1].date
    /\ eod_runs[3].date > eod_runs[2].date
    /\ eod_last_run_date = eod_runs[2].date

(***************************************************************************)
(* Properties of flatten-all.                                              *)
(***************************************************************************)
\* C22: a run of flatten-all that has asked for the close of the listed
\* position reports success if and only if no close was refused, and a
\* refused close never leaves flatten_all_options() as an exception.
C22_SuccessIffAllClosed ==
    (flatten.pc = "done" /\ flatten.caller = "eod_flatten" /\ flatten.qty # 0)
        => /\ flatten.result # "Exception"
           /\ flatten.result = "ok" <=> flatten.failed = 0

\* The closing orders of one side that two runs have had accepted.
Repeated ==
    {cs \in flatten.closes \X flatten.closes :
        cs[1].run < cs[2].run /\ cs[1].kind = cs[2].kind}

\* C23: a later run of flatten-all has a closing order accepted for the
\* position only when the closing order of the earlier run is dead
\* (canceled, rejected or expired); it adds none while the earlier one is
\* open or filled.  One contract is traded once, so two closes of one side
\* are closes of the same position.
C23_NoSecondClose ==
    \A cs \in Repeated : option_orders[cs[1].id].status \in Ended

\* The bracket of entry p is over: a leg is filled or dead, or a closing
\* order submitted after the entry has filled.
BracketOver(p) ==
    /\ p \in DOMAIN OCO_BOOK
    /\ \/ \E leg \in Legs : ~Open(option_orders[OCO_BOOK[p][leg]])
       \/ \E c \in flatten.closes : c.id > p /\ option_orders[c.id].status = "filled"

\* C29: the record of a bracket that is over is eventually removed from
\* OCO_BOOK.
C29_RecordEventuallyRemoved ==
    \A p \in 1 .. MaxOrders : BracketOver(p) ~> (p \notin DOMAIN OCO_BOOK)
====
